---- MODULE Spec2Model ----
(***************************************************************************)
(* Frontend IR builders of Sunscreen: the FHE Context (sunscreen/src/      *)
(* lib.rs) and the ZKP context with gadget invocation (sunscreen/src/zkp/  *)
(* mod.rs).  A graph is a sequence of node tags and a sequence of edges;   *)
(* node id i is the (i+1)-th element of the node sequence, as petgraph's   *)
(* StableGraph hands out indices 0, 1, 2, ... while no node is removed.    *)
(***************************************************************************)
EXTENDS Integers, Sequences, FiniteSets, TLC

VARIABLES
    CURRENT_CTX,        \* TRUE iff the thread-local FHE slot holds a Context
    ctx,                \* the FHE Context's compilation.graph
    literal_ids,        \* history: literal -> id add_literal last returned for it (-1: never)
    CURRENT_ZKP_CTX,    \* TRUE iff the thread-local ZKP slot holds a ZkpContext
    zkp_ctx,            \* the ZkpContext: graph and ZkpData counters
    gadget_stack,       \* invoke_gadget calls that are inside gen_circuit, innermost last
    last,               \* the most recent builder call: name, arguments, result
    panicked,           \* TRUE once a call has panicked
    tls,                \* tls[t][s]: the RefCell in thread t's thread-local slot s
    heap,               \* heap[s]: the Contexts created for slot s; a reference is a position
    thread,             \* thread[t]: what thread t is running and its last call
    compiled,           \* the calls of the lowering pass so far and what they returned
    fhe_program_nodes   \* the FHE Context's cache of FheProgramNodes: ids -> node

vars == <<CURRENT_CTX, ctx, literal_ids, CURRENT_ZKP_CTX, zkp_ctx,
          gadget_stack, last, panicked, tls, heap, thread, compiled,
          fhe_program_nodes>>

\* The state of one construction seen from its own thread.
builder_vars == <<CURRENT_CTX, ctx, literal_ids, CURRENT_ZKP_CTX, zkp_ctx,
                  gadget_stack, last, panicked>>

\* The slots of all threads, the Contexts they refer to, what was compiled,
\* and the node cache.
thread_vars == <<tls, heap, thread, compiled, fhe_program_nodes>>

fhe_vars == <<CURRENT_CTX, ctx, literal_ids>>

zkp_vars == <<CURRENT_ZKP_CTX, zkp_ctx, gadget_stack>>

(***************************************************************************)
(* Bounds                                                                  *)
(***************************************************************************)
MaxFheNodes == 2

MaxZkpNodes == 2

MaxVal == 1

MaxArgs == 2

MaxSliceIndex == 2

MaxCacheEntries == 2

Values == 0..MaxVal

(***************************************************************************)
(* Sequence helpers                                                        *)
(***************************************************************************)
Range(s) == {s[i] : i \in 1..Len(s)}

(***************************************************************************)
(* petgraph StableGraph, as the builders use it                            *)
(***************************************************************************)
EmptyGraph == [nodes |-> <<>>, edges |-> <<>>]

NodeIds(g) == 0..(Len(g.nodes) - 1)

node_count(g) == Len(g.nodes)

edge_count(g) == Len(g.edges)

\* An add_node that puts the new tag in front of the others.
StableGraph_add_node_front(g, op) ==
    [g |-> [g EXCEPT !.nodes = <<op>> \o @], id |-> 0]

\* graph.add_node(op): the tag is appended, the new index is the old count.
StableGraph_add_node(g, op) ==
    [g |-> [g EXCEPT !.nodes = Append(@, op)], id |-> Len(g.nodes)]

\* An add_edge that keeps one outgoing edge per node: an earlier edge out of
\* the same node is replaced.
StableGraph_add_edge_replacing(g, a, b, w) ==
    IF \E k \in 1..Len(g.edges) : g.edges[k].from = a
    THEN [g EXCEPT !.edges = [k \in 1..Len(g.edges) |->
             IF g.edges[k].from = a
             THEN [from |-> a, to |-> b, role |-> w] ELSE g.edges[k]]]
    ELSE [g EXCEPT !.edges = Append(@, [from |-> a, to |-> b, role |-> w])]

\* graph.add_edge(a, b, w): one more edge a -> b; parallel edges are kept.
\* An add_edge that keeps one edge per pair of nodes: update_edge.
StableGraph_update_edge(g, a, b, w) ==
    IF \E k \in 1..Len(g.edges) : g.edges[k].from = a /\ g.edges[k].to = b
    THEN [g EXCEPT !.edges = [k \in 1..Len(g.edges) |->
             IF g.edges[k].from = a /\ g.edges[k].to = b
             THEN [from |-> a, to |-> b, role |-> w] ELSE g.edges[k]]]
    ELSE [g EXCEPT !.edges = Append(@, [from |-> a, to |-> b, role |-> w])]

StableGraph_add_edge(g, a, b, w) ==
    [g EXCEPT !.edges = Append(@, [from |-> a, to |-> b, role |-> w])]

InEdges(g, n) == {i \in 1..Len(g.edges) : g.edges[i].to = n}

OutEdges(g, n) == {i \in 1..Len(g.edges) : g.edges[i].from = n}

(***************************************************************************)
(* FHE frontend: Literal, Operation, OperandInfo                           *)
(***************************************************************************)
Literal_U64(x) == [lit |-> "U64", val |-> x]

Literal_Plaintext(x) == [lit |-> "Plaintext", val |-> x]

Literals == {Literal_U64(v) : v \in Values} \cup {Literal_Plaintext(v) : v \in Values}

\* An encoded plaintext that Plaintext::to_bytes cannot serialize.
Unserializable == -1

PlaintextValues == Values \cup {Unserializable}

NoLiteral == [lit |-> "None", val |-> 0]

Operation(kind) == [kind |-> kind, literal |-> NoLiteral]

Operation_Literal(l) == [kind |-> "Literal", literal |-> l]

FheBinaryKinds == {"Add", "AddPlaintext", "Sub", "SubPlaintext", "Multiply",
                   "MultiplyPlaintext", "RotateLeft", "RotateRight"}

FheUnaryKinds == {"Negate", "SwapRows", "Output"}

FheInputKinds == {"InputCiphertext", "InputPlaintext"}

\* Context::new: an empty graph.
Context_new == EmptyGraph

\* What gen_circuit was called with and what it returned (invoke_gadget only).
NoGen == [called |-> FALSE, gadget_inputs |-> <<>>, hidden_inputs |-> <<>>, ret |-> <<>>]

NoCall == [op |-> "none", args |-> <<>>, literal |-> NoLiteral, gadget |-> "None",
           ret |-> <<>>, gen |-> NoGen, type |-> "None", outcome |-> "none"]

Call(op, args, ret) == [NoCall EXCEPT !.op = op, !.args = args, !.ret = ret]

CallLit(op, l, ret) == [NoCall EXCEPT !.op = op, !.literal = l, !.ret = ret]

CallGadget(g, args, ret, gen) ==
    [NoCall EXCEPT !.op = "invoke_gadget", !.gadget = g, !.args = args, !.ret = ret, !.gen = gen]

\* graph.add_edge(a, b, w) panics, adding nothing, when a or b is not a node.
StableGraph_add_edge_panics(g, a, b) == a \notin NodeIds(g) \/ b \notin NodeIds(g)

\* add_node, then the Left edge, then the Right edge; the call unwinds at the
\* first add_edge that panics and keeps what was added before it.
add_2_input(c, op, left, right) ==
    LET n == StableGraph_add_node(c, op)
        p1 == StableGraph_add_edge_panics(n.g, left, n.id)
        e1 == IF p1 THEN n.g ELSE StableGraph_add_edge(n.g, left, n.id, "Left")
        p2 == p1 \/ StableGraph_add_edge_panics(e1, right, n.id)
        e2 == IF p2 THEN e1 ELSE StableGraph_add_edge(e1, right, n.id, "Right")
    IN [g |-> e2, id |-> n.id, panic |-> p2]

\* add_node, then the Unary edge; the call unwinds if add_edge panics.
add_1_input(c, op, i) ==
    LET n == StableGraph_add_node(c, op)
        p == StableGraph_add_edge_panics(n.g, i, n.id)
    IN [g |-> IF p THEN n.g ELSE StableGraph_add_edge(n.g, i, n.id, "Unary"),
        id |-> n.id, panic |-> p]

\* The scan of add_literal: indices of the literal nodes equal to the literal.
matching_literals(c, literal) ==
    {i \in NodeIds(c) : c.nodes[i + 1].kind = "Literal" /\ c.nodes[i + 1].literal = literal}

Min(S) == CHOOSE m \in S : \A o \in S : m <= o

\* An add_literal that never looks for an existing node.
add_literal_no_scan(c, literal) ==
    StableGraph_add_node(c, Operation_Literal(literal))

add_literal_op(c, literal) ==
    LET existing_literal == matching_literals(c, literal)
    IN IF existing_literal # {}
       THEN [g |-> c, id |-> Min(existing_literal)]
       ELSE StableGraph_add_node(c, Operation_Literal(literal))

add_plaintext_literal_op(c, plaintext) ==
    StableGraph_add_node(c, Operation_Literal(Literal_Plaintext(plaintext)))

\* with_ctx(f): the closure runs on the Context in the slot.
with_ctx == CURRENT_CTX /\ ~panicked

Room(c, n, max) == node_count(c) + n <= max

FheStep(r, call) ==
    /\ ctx' = r.g
    /\ last' = call
    /\ UNCHANGED <<CURRENT_CTX, literal_ids, zkp_vars, panicked, thread_vars>>

FheLeaf(kind, name) ==
    /\ with_ctx
    /\ Room(ctx, 1, MaxFheNodes)
    /\ LET r == StableGraph_add_node(ctx, Operation(kind))
       IN FheStep(r, Call(name, <<>>, <<r.id>>))

\* A NodeIndex is a plain number: the caller can pass the id an earlier call
\* returned, the index the node being added is about to get, or one beyond
\* it, and the builders check none.
NodeIndexes == 0..MaxFheNodes

\* A builder with operands returns the id of its node, or panics in add_edge
\* and leaves what it had added.
FheOperandStep(r, name, args) ==
    /\ ctx' = r.g
    /\ panicked' = r.panic
    /\ last' = Call(name, args, IF r.panic THEN <<>> ELSE <<r.id>>)
    /\ UNCHANGED <<CURRENT_CTX, literal_ids, zkp_vars, thread_vars>>

\* A binary builder, add_2_input(Operation::X, left, right).
FheBinary(kind, name) ==
    /\ with_ctx
    /\ Room(ctx, 1, MaxFheNodes)
    /\ \E left \in NodeIndexes, right \in NodeIndexes :
          FheOperandStep(add_2_input(ctx, Operation(kind), left, right),
                         name, <<left, right>>)

\* A unary builder, add_1_input(Operation::X, x).
FheUnary(kind, name) ==
    /\ with_ctx
    /\ Room(ctx, 1, MaxFheNodes)
    /\ \E i \in NodeIndexes :
          FheOperandStep(add_1_input(ctx, Operation(kind), i), name, <<i>>)

add_ciphertext_input == FheLeaf("InputCiphertext", "add_ciphertext_input")

add_plaintext_input == FheLeaf("InputPlaintext", "add_plaintext_input")

add_plaintext_literal ==
    /\ with_ctx
    /\ Room(ctx, 1, MaxFheNodes)
    /\ \E p \in Values :
          LET r == add_plaintext_literal_op(ctx, p)
          IN FheStep(r, CallLit("add_plaintext_literal", Literal_Plaintext(p), <<r.id>>))

add_subtraction == FheBinary("Sub", "add_subtraction")

add_subtraction_plaintext == FheBinary("SubPlaintext", "add_subtraction_plaintext")

add_negate == FheUnary("Negate", "add_negate")

add_addition == FheBinary("Add", "add_addition")

add_addition_plaintext == FheBinary("AddPlaintext", "add_addition_plaintext")

add_multiplication == FheBinary("Multiply", "add_multiplication")

add_multiplication_plaintext == FheBinary("MultiplyPlaintext", "add_multiplication_plaintext")

add_literal ==
    /\ with_ctx
    /\ \E l \in Literals :
          LET r == add_literal_op(ctx, l)
          IN /\ Room(r.g, 0, MaxFheNodes)
             /\ ctx' = r.g
             /\ last' = CallLit("add_literal", l, <<r.id>>)
             /\ literal_ids' = [literal_ids EXCEPT ![l] = r.id]
             /\ UNCHANGED <<CURRENT_CTX, zkp_vars, panicked, thread_vars>>

add_rotate_left == FheBinary("RotateLeft", "add_rotate_left")

add_rotate_right == FheBinary("RotateRight", "add_rotate_right")

add_swap_rows == FheUnary("SwapRows", "add_swap_rows")

add_output == FheUnary("Output", "add_output")

FheNext ==
    \/ add_ciphertext_input
    \/ add_plaintext_input
    \/ add_plaintext_literal
    \/ add_subtraction
    \/ add_subtraction_plaintext
    \/ add_negate
    \/ add_addition
    \/ add_addition_plaintext
    \/ add_multiplication
    \/ add_multiplication_plaintext
    \/ add_literal
    \/ add_rotate_left
    \/ add_rotate_right
    \/ add_swap_rows
    \/ add_output

FheBinaryBuilders ==
    [add_addition |-> "Add", add_addition_plaintext |-> "AddPlaintext",
     add_subtraction |-> "Sub", add_subtraction_plaintext |-> "SubPlaintext",
     add_multiplication |-> "Multiply",
     add_multiplication_plaintext |-> "MultiplyPlaintext",
     add_rotate_left |-> "RotateLeft", add_rotate_right |-> "RotateRight"]

FheUnaryBuilders ==
    [add_negate |-> "Negate", add_swap_rows |-> "SwapRows", add_output |-> "Output"]

\* One of the binary builders, each of which is add_2_input(Operation::X,
\* left, right), called with any two NodeIndexes.
binary_builder_call ==
    /\ with_ctx
    /\ Room(ctx, 1, MaxFheNodes)
    /\ \E name \in DOMAIN FheBinaryBuilders, left \in NodeIndexes, right \in NodeIndexes :
          FheOperandStep(add_2_input(ctx, Operation(FheBinaryBuilders[name]), left, right),
                         name, <<left, right>>)

\* One of the unary builders, each of which is add_1_input(Operation::X, x),
\* called with any NodeIndex.
unary_builder_call ==
    /\ with_ctx
    /\ Room(ctx, 1, MaxFheNodes)
    /\ \E name \in DOMAIN FheUnaryBuilders, i \in NodeIndexes :
          FheOperandStep(add_1_input(ctx, Operation(FheUnaryBuilders[name]), i),
                         name, <<i>>)

FheOperandsNext ==
    \/ add_ciphertext_input
    \/ add_plaintext_input
    \/ add_plaintext_literal
    \/ add_literal
    \/ binary_builder_call
    \/ unary_builder_call

(***************************************************************************)
(* Context::fhe_program_nodes, the cache behind get_fhe_program_node.  A   *)
(* HashMap keyed by a slice compares keys by their contents: the key is    *)
(* the sequence of ids.                                                    *)
(***************************************************************************)
HashMap_new == [ids \in {} |-> "None"]

\* The types T a FheProgramNode<T> is requested for.
NodeTypes == {"Cipher<Signed>", "Cipher<Rational>"}

\* The id slices asked for: the ids i, i+1, .., j of one value.
IdSlices ==
    {[k \in 1..(j - i + 1) |-> i + k - 1] : <<i, j>> \in
        {x \in (0..MaxSliceIndex) \X (0..MaxSliceIndex) : x[1] <= x[2]}}

FheProgramNode_new(ids, T) == [ids |-> ids, type |-> T]

HashMap_insert(m, k, v) == [x \in DOMAIN m \cup {k} |-> IF x = k THEN v ELSE m[x]]

\* A get_fhe_program_node that replaces the cached node when T differs.
get_fhe_program_node_op_replace(m, ids, T) ==
    IF ids \in DOMAIN m /\ m[ids].type = T
    THEN [nodes |-> m, outcome |-> "cached", ret |-> <<m[ids]>>]
    ELSE [nodes |-> HashMap_insert(m, ids, FheProgramNode_new(ids, T)),
          outcome |-> "created", ret |-> <<FheProgramNode_new(ids, T)>>]

\* match self.fhe_program_nodes.get(ids): Some(n) is downcast to
\* FheProgramNode<T> and unwrapped, None inserts a new node and returns it.
get_fhe_program_node_op(m, ids, T) ==
    IF ids \in DOMAIN m
    THEN IF m[ids].type = T
         THEN [nodes |-> m, outcome |-> "cached", ret |-> <<m[ids]>>]
         ELSE [nodes |-> m, outcome |-> "panic", ret |-> <<>>]
    ELSE [nodes |-> HashMap_insert(m, ids, FheProgramNode_new(ids, T)),
          outcome |-> "created", ret |-> <<FheProgramNode_new(ids, T)>>]

CallNode(ids, T, r) ==
    [NoCall EXCEPT !.op = "get_fhe_program_node", !.args = ids, !.type = T,
                   !.outcome = r.outcome, !.ret = r.ret]

get_fhe_program_node ==
    /\ with_ctx
    /\ \E ids \in IdSlices, T \in NodeTypes :
          LET r == get_fhe_program_node_op(fhe_program_nodes, ids, T)
          IN /\ Cardinality(DOMAIN r.nodes) <= MaxCacheEntries
             /\ fhe_program_nodes' = r.nodes
             /\ last' = CallNode(ids, T, r)
             /\ panicked' = (r.outcome = "panic")
    /\ UNCHANGED <<CURRENT_CTX, ctx, literal_ids, zkp_vars, tls, heap, thread, compiled>>

(***************************************************************************)
(* ZKP frontend: Operation, EdgeInfo, ZkpData, gadgets                     *)
(***************************************************************************)
ZkpOperation(kind, arg) == [kind |-> kind, arg |-> arg, gadget |-> "None"]

ZkpOperation_InvokeGadget(g) == [kind |-> "InvokeGadget", arg |-> 0, gadget |-> g]

EdgeInfo(role) == [role |-> role, pos |-> 0]

EdgeInfo_Ordered(i) == [role |-> "Ordered", pos |-> i]

\* Two gadget types; the counts are what their Gadget impls return.
Gadgets == {"GA", "GB"}

gadget_input_count(g) == IF g = "GA" THEN 2 ELSE 0

hidden_input_count(g) == IF g = "GA" THEN 1 ELSE 2

ZkpData_new == [next_public_input |-> 0, next_private_input |-> 0, next_constant_input |-> 0]

ZkpContext_new == [nodes |-> <<>>, edges |-> <<>>, data |-> ZkpData_new]

\* Context::add_node / add_edge / add_binary_operation / add_unary_operation
\* of sunscreen_compiler_common.
add_node(c, op) ==
    LET n == StableGraph_add_node(c, op) IN [c |-> n.g, id |-> n.id]

add_edge(c, from, to, info) == StableGraph_add_edge(c, from, to, info)

add_binary_operation(c, op, left, right) ==
    LET n == add_node(c, op)
        e1 == add_edge(n.c, left, n.id, EdgeInfo("Left"))
        e2 == add_edge(e1, right, n.id, EdgeInfo("Right"))
    IN [c |-> e2, id |-> n.id]

add_unary_operation(c, op, i) ==
    LET n == add_node(c, op)
    IN [c |-> add_edge(n.c, i, n.id, EdgeInfo("Unary")), id |-> n.id]

add_public_input_op(c) ==
    LET n == add_node(c, ZkpOperation("PublicInput", c.data.next_public_input))
    IN [c |-> [n.c EXCEPT !.data.next_public_input = @ + 1], id |-> n.id]

\* An add_private_input that numbers private inputs with the public counter.
add_private_input_op_public_counter(c) ==
    LET n == add_node(c, ZkpOperation("PrivateInput", c.data.next_public_input))
    IN [c |-> [n.c EXCEPT !.data.next_public_input = @ + 1], id |-> n.id]

add_private_input_op(c) ==
    LET n == add_node(c, ZkpOperation("PrivateInput", c.data.next_private_input))
    IN [c |-> [n.c EXCEPT !.data.next_private_input = @ + 1], id |-> n.id]

add_constant_input_op(c) ==
    LET n == add_node(c, ZkpOperation("ConstantInput", c.data.next_constant_input))
    IN [c |-> [n.c EXCEPT !.data.next_constant_input = @ + 1], id |-> n.id]

\* An add_hidden_input that numbers the hidden inputs across the Context.
add_hidden_input_context_slot(c, gadget_arg_id) ==
    add_node(c, ZkpOperation("HiddenInput",
                             Cardinality({i \in NodeIds(c) : c.nodes[i + 1].kind = "HiddenInput"})))

add_hidden_input(c, gadget_arg_id) == add_node(c, ZkpOperation("HiddenInput", gadget_arg_id))

\* An add_constraint whose edge runs from the constraint to its operand.
add_constraint_op_reversed(c, left, val) ==
    LET constraint == add_node(c, ZkpOperation("Constraint", val))
    IN [c |-> add_edge(constraint.c, constraint.id, left, EdgeInfo("Unordered")),
        id |-> constraint.id]

add_constraint_op(c, left, val) ==
    LET constraint == add_node(c, ZkpOperation("Constraint", val))
    IN [c |-> add_edge(constraint.c, left, constraint.id, EdgeInfo("Unordered")),
        id |-> constraint.id]

add_constant_op(c, val) == add_node(c, ZkpOperation("Constant", val))

add_invoke_gadget(c, g) == add_node(c, ZkpOperation_InvokeGadget(g))

\* Node ids a caller can hold: every method of ZkpContextOps returns the id of
\* the node it made, add_invoke_gadget included, and the builders take any id.
Handles(c) == NodeIds(c)

\* A hidden input that invoke_gadget wired to its invocation node.  No other
\* call adds an edge into a hidden input: the builders add edges into the
\* node they create.
WiredHiddenInput(c, i) == c.nodes[i + 1].kind = "HiddenInput" /\ InEdges(c, i) # {}

\* The ZKP bound counts calls: each method call adds one node, and an
\* invoke_gadget adds its wired hidden inputs on top.
ZkpRoom(c) ==
    Cardinality({i \in NodeIds(c) : ~WiredHiddenInput(c, i)}) < MaxZkpNodes

\* with_zkp_ctx(f): the closure runs on the ZkpContext in the slot.
with_zkp_ctx == CURRENT_ZKP_CTX /\ ~panicked

ZkpStep(r, call) ==
    /\ zkp_ctx' = r.c
    /\ last' = call
    /\ UNCHANGED <<CURRENT_ZKP_CTX, gadget_stack, fhe_vars, panicked, thread_vars>>

add_public_input ==
    /\ with_zkp_ctx
    /\ ZkpRoom(zkp_ctx)
    /\ LET r == add_public_input_op(zkp_ctx)
       IN ZkpStep(r, Call("add_public_input", <<>>, <<r.id>>))

add_private_input ==
    /\ with_zkp_ctx
    /\ ZkpRoom(zkp_ctx)
    /\ LET r == add_private_input_op(zkp_ctx)
       IN ZkpStep(r, Call("add_private_input", <<>>, <<r.id>>))

add_constant_input ==
    /\ with_zkp_ctx
    /\ ZkpRoom(zkp_ctx)
    /\ LET r == add_constant_input_op(zkp_ctx)
       IN ZkpStep(r, Call("add_constant_input", <<>>, <<r.id>>))

ZkpBinary(kind, name) ==
    /\ with_zkp_ctx
    /\ ZkpRoom(zkp_ctx)
    /\ \E left \in Handles(zkp_ctx), right \in Handles(zkp_ctx) :
          LET r == add_binary_operation(zkp_ctx, ZkpOperation(kind, 0), left, right)
          IN ZkpStep(r, Call(name, <<left, right>>, <<r.id>>))

zkp_add_addition == ZkpBinary("Add", "add_addition")

zkp_add_multiplication == ZkpBinary("Mul", "add_multiplication")

zkp_add_negate ==
    /\ with_zkp_ctx
    /\ ZkpRoom(zkp_ctx)
    /\ \E left \in Handles(zkp_ctx) :
          LET r == add_unary_operation(zkp_ctx, ZkpOperation("Neg", 0), left)
          IN ZkpStep(r, Call("add_negate", <<left>>, <<r.id>>))

zkp_add_subtraction == ZkpBinary("Sub", "add_subtraction")

add_constraint ==
    /\ with_zkp_ctx
    /\ ZkpRoom(zkp_ctx)
    /\ \E left \in Handles(zkp_ctx), val \in Values :
          LET r == add_constraint_op(zkp_ctx, left, val)
          IN ZkpStep(r, Call("add_constraint", <<left, val>>, <<r.id>>))

add_constant ==
    /\ with_zkp_ctx
    /\ ZkpRoom(zkp_ctx)
    /\ \E val \in Values :
          LET r == add_constant_op(zkp_ctx, val)
          IN ZkpStep(r, Call("add_constant", <<val>>, <<r.id>>))

\* ctx.add_hidden_input(gadget_arg_id), called on its own.
zkp_add_hidden_input ==
    /\ with_zkp_ctx
    /\ ZkpRoom(zkp_ctx)
    /\ \E gadget_arg_id \in Values :
          LET r == add_hidden_input(zkp_ctx, gadget_arg_id)
          IN ZkpStep(r, Call("add_hidden_input", <<gadget_arg_id>>, <<r.id>>))

\* ctx.add_invoke_gadget(&gadget), called on its own.
zkp_add_invoke_gadget ==
    /\ with_zkp_ctx
    /\ ZkpRoom(zkp_ctx)
    /\ \E g \in Gadgets :
          LET r == add_invoke_gadget(zkp_ctx, g)
          IN ZkpStep(r, [Call("add_invoke_gadget", <<>>, <<r.id>>) EXCEPT !.gadget = g])

(***************************************************************************)
(* impl Hash and impl PartialEq for the ZKP Operation.                     *)
(***************************************************************************)
\* Operation::InvokeGadget(Arc<dyn Gadget>) made from one of several Arcs of a
\* gadget type: for this variant arg names the Arc and gadget its type.
ZkpOperation_InvokeGadget_of(g, arc) == [ZkpOperation_InvokeGadget(g) EXCEPT !.arg = arc]

\* Values of every variant of Operation.
ZkpOperations ==
    {ZkpOperation(k, v) :
        k \in {"PrivateInput", "PublicInput", "ConstantInput", "HiddenInput",
               "Constraint", "Constant"}, v \in Values}
    \cup {ZkpOperation(k, 0) : k \in {"Add", "Sub", "Mul", "Neg"}}
    \cup {ZkpOperation_InvokeGadget_of(g, arc) : g \in Gadgets, arc \in Values}

\* TypeId::of::<t>(), as a number.
TypeId_of(t) ==
    CASE t = "Arc<dyn Gadget>" -> 0
      [] t = "GA" -> 1
      [] t = "GB" -> 2

\* g.type_id() with g: &Arc<dyn Gadget> and std::any::Any in scope: the
\* method is found on Arc<dyn Gadget> itself, which is 'static and so
\* implements Any, before the Arc is dereferenced to the gadget.
type_id(op) == TypeId_of("Arc<dyn Gadget>")

\* impl Hash for Operation: what the arm of the variant writes to the hasher.
Operation_hash(op) ==
    CASE op.kind = "PrivateInput" -> <<0, op.arg>>
      [] op.kind = "PublicInput" -> <<1, op.arg>>
      [] op.kind = "HiddenInput" -> <<2, op.arg>>
      [] op.kind = "Constraint" -> <<3, op.arg>>
      [] op.kind = "Constant" -> <<4, op.arg>>
      [] op.kind = "InvokeGadget" -> <<5, type_id(op)>>
      [] op.kind = "Add" -> <<6>>
      [] op.kind = "Sub" -> <<7>>
      [] op.kind = "Mul" -> <<8>>
      [] op.kind = "Neg" -> <<9>>
      [] op.kind = "ConstantInput" -> <<10, op.arg>>

\* impl PartialEq for Operation: match (self, other) { .. , _ => false }.
Operation_eq(self, other) ==
    CASE self.kind = "PrivateInput" /\ other.kind = "PrivateInput" -> self.arg = other.arg
      [] self.kind = "PublicInput" /\ other.kind = "PublicInput" -> self.arg = other.arg
      [] self.kind = "HiddenInput" /\ other.kind = "HiddenInput" -> self.arg = other.arg
      [] self.kind = "Constraint" /\ other.kind = "Constraint" -> self.arg = other.arg
      [] self.kind = "Constant" /\ other.kind = "Constant" -> self.arg = other.arg
      [] self.kind = "InvokeGadget" /\ other.kind = "InvokeGadget" ->
            type_id(self) = type_id(other)
      [] self.kind = "Add" /\ other.kind = "Add" -> TRUE
      [] self.kind = "Sub" /\ other.kind = "Sub" -> TRUE
      [] self.kind = "Mul" /\ other.kind = "Mul" -> TRUE
      [] self.kind = "Neg" /\ other.kind = "Neg" -> TRUE
      [] OTHER -> FALSE

CallEq(a, b) ==
    [NoCall EXCEPT !.op = "eq", !.args = <<a, b>>,
                   !.ret = <<Operation_eq(a, b), Operation_hash(a), Operation_hash(b)>>]

\* Two operations are compared and hashed.
operation_eq ==
    /\ \E a \in ZkpOperations, b \in ZkpOperations : last' = CallEq(a, b)
    /\ UNCHANGED <<CURRENT_CTX, ctx, literal_ids, zkp_vars, panicked, thread_vars>>

(***************************************************************************)
(* impl OperationTrait for the ZKP Operation.                              *)
(***************************************************************************)
is_binary(op) == op.kind \in {"Add", "Mul", "Sub"}

is_unary(op) == op.kind = "Neg"

is_unordered(op) == op.kind = "Constant"

is_ordered(op) == op.kind = "InvokeGadget"

(***************************************************************************)
(* invoke_gadget and the gadget's gen_circuit                              *)
(***************************************************************************)
RECURSIVE hidden_inputs_loop(_, _, _, _, _)
\* for i in 0..hidden_inputs_count { add_hidden_input(i); add_edge(gadget, hidden_input, Unary); push }
hidden_inputs_loop(c, gadget, i, hidden_inputs_count, hidden_inputs) ==
    IF i >= hidden_inputs_count
    THEN [c |-> c, hidden_inputs |-> hidden_inputs]
    ELSE LET hidden_input == add_hidden_input(c, i)
             e == add_edge(hidden_input.c, gadget, hidden_input.id, EdgeInfo("Unary"))
         IN hidden_inputs_loop(e, gadget, i + 1, hidden_inputs_count,
                               Append(hidden_inputs, hidden_input.id))

RECURSIVE gadget_inputs_loop_reversed(_, _, _, _)
\* A gadget_inputs loop that walks the inputs from the back.
gadget_inputs_loop_reversed(c, gadget, gadget_inputs, i) ==
    IF i >= Len(gadget_inputs)
    THEN c
    ELSE gadget_inputs_loop_reversed(
             add_edge(c, gadget_inputs[Len(gadget_inputs) - i], gadget, EdgeInfo_Ordered(i)),
             gadget, gadget_inputs, i + 1)

RECURSIVE gadget_inputs_loop(_, _, _, _)
\* for (i, gadget_input) in gadget_inputs.iter().enumerate() { add_edge(*gadget_input, gadget, Ordered(i)) }
gadget_inputs_loop(c, gadget, gadget_inputs, i) ==
    IF i >= Len(gadget_inputs)
    THEN c
    ELSE gadget_inputs_loop(add_edge(c, gadget_inputs[i + 1], gadget, EdgeInfo_Ordered(i)),
                            gadget, gadget_inputs, i + 1)

\* The closure invoke_gadget runs under with_zkp_ctx.
wire_gadget(c, g, gadget_inputs) ==
    LET gadget == add_invoke_gadget(c, g)
        h == hidden_inputs_loop(gadget.c, gadget.id, 0, hidden_input_count(g), <<>>)
    IN [c |-> gadget_inputs_loop(h.c, gadget.id, gadget_inputs, 0),
        gadget |-> gadget.id,
        hidden_inputs |-> h.hidden_inputs]

\* An invoke_gadget that checks the input count only after the wiring.
invoke_gadget_op_late_assert(c, g, gadget_inputs) ==
    LET w == wire_gadget(c, g, gadget_inputs)
    IN IF gadget_input_count(g) # Len(gadget_inputs)
       THEN [panic |-> TRUE, c |-> w.c, gadget |-> -1,
             gadget_inputs |-> <<>>, hidden_inputs |-> <<>>]
       ELSE [panic |-> FALSE, c |-> w.c, gadget |-> w.gadget,
             gadget_inputs |-> gadget_inputs, hidden_inputs |-> w.hidden_inputs]

\* invoke_gadget up to the call of gen_circuit: the assertion, then the wiring.
\* gen_circuit is entered with (gadget_inputs, hidden_inputs) unless the
\* assertion panics.
invoke_gadget_op(c, g, gadget_inputs) ==
    IF gadget_input_count(g) # Len(gadget_inputs)
    THEN [panic |-> TRUE, c |-> c, gadget |-> -1,
          gadget_inputs |-> <<>>, hidden_inputs |-> <<>>]
    ELSE LET w == wire_gadget(c, g, gadget_inputs)
         IN [panic |-> FALSE, c |-> w.c, gadget |-> w.gadget,
             gadget_inputs |-> gadget_inputs, hidden_inputs |-> w.hidden_inputs]

\* An invoke_gadget that hands back the hidden inputs instead.
invoke_gadget_return_hidden(frame, gen_circuit_ret) == frame.hidden_inputs

\* The value of invoke_gadget is the value of its last expression, g.gen_circuit(...).
invoke_gadget_return(frame, gen_circuit_ret) == gen_circuit_ret

\* The argument lists tried for gadget g: every list of the length g takes,
\* and for every other length up to MaxArgs the list that repeats the oldest
\* id, which the assertion rejects before it reads an element.
GadgetInputs(c, g) ==
    [1..gadget_input_count(g) -> Handles(c)]
    \cup {<<>>}
    \cup {[i \in 1..k |-> 0] : k \in {n \in 1..MaxArgs : Handles(c) # {}}}

invoke_gadget ==
    /\ with_zkp_ctx
    /\ \E g \in Gadgets : \E gadget_inputs \in GadgetInputs(zkp_ctx, g) :
          LET r == invoke_gadget_op(zkp_ctx, g, gadget_inputs)
          IN /\ ZkpRoom(zkp_ctx) \/ r.panic
             /\ zkp_ctx' = r.c
             /\ panicked' = r.panic
             /\ IF r.panic
                THEN /\ last' = CallGadget(g, gadget_inputs, <<>>, NoGen)
                     /\ UNCHANGED gadget_stack
                ELSE /\ gadget_stack' = Append(gadget_stack,
                            [gadget |-> g, args |-> gadget_inputs, node |-> r.gadget,
                             gadget_inputs |-> r.gadget_inputs,
                             hidden_inputs |-> r.hidden_inputs])
                     /\ UNCHANGED last
             /\ UNCHANGED <<CURRENT_ZKP_CTX, fhe_vars, thread_vars>>

\* What a gen_circuit implementation may hand back: node ids it was given or
\* obtained from builder calls.
gen_circuit_outputs(frame, c) ==
    {<<>>, frame.gadget_inputs, frame.hidden_inputs} \cup {<<h>> : h \in Handles(c)}

\* gen_circuit returns and invoke_gadget returns with it.
gen_circuit_returns ==
    /\ with_zkp_ctx
    /\ gadget_stack # <<>>
    /\ LET frame == gadget_stack[Len(gadget_stack)]
       IN \E ret \in gen_circuit_outputs(frame, zkp_ctx) :
             /\ gadget_stack' = SubSeq(gadget_stack, 1, Len(gadget_stack) - 1)
             /\ last' = CallGadget(frame.gadget, frame.args, invoke_gadget_return(frame, ret),
                                   [called |-> TRUE,
                                    gadget_inputs |-> frame.gadget_inputs,
                                    hidden_inputs |-> frame.hidden_inputs,
                                    ret |-> ret])
    /\ UNCHANGED <<CURRENT_ZKP_CTX, zkp_ctx, fhe_vars, panicked, thread_vars>>

ZkpNext ==
    \/ add_public_input
    \/ add_private_input
    \/ add_constant_input
    \/ zkp_add_addition
    \/ zkp_add_multiplication
    \/ zkp_add_negate
    \/ zkp_add_subtraction
    \/ add_constraint
    \/ add_constant
    \/ zkp_add_hidden_input
    \/ zkp_add_invoke_gadget
    \/ invoke_gadget
    \/ gen_circuit_returns

(***************************************************************************)
(* The thread-local slots.  CURRENT_CTX and CURRENT_ZKP_CTX are            *)
(* thread_local! RefCell<Option<&'static mut Context>>: every thread has   *)
(* its own pair of cells.  with_ctx / with_zkp_ctx borrow the calling      *)
(* thread's cell mutably for as long as the closure runs.                  *)
(***************************************************************************)
Threads == {"A", "B"}

Slots == {"CURRENT_CTX", "CURRENT_ZKP_CTX"}

MaxContexts == 2

MaxHeapNodes == 3

MaxDepth == 3

MaxGadgetNodes == 5

\* Option::None; Some(reference) is the position of the Context in heap[s].
None == 0

RefCell_new(v) == [value |-> v, borrowed |-> FALSE]

NoThreadCall == [op |-> "none", outcome |-> "none", ret |-> -1]

ThreadCall(op, outcome, ret) == [op |-> op, outcome |-> outcome, ret |-> ret]

Frame(kind, s, c) == [kind |-> kind, slot |-> s, ctx |-> c]

\* A key that is one process-wide cell instead of one cell per thread.
LocalKey_with_shared(tl, t, s) == tl["A"][s]

\* KEY.with(|ctx| ...): the closure gets the cell of the calling thread.
LocalKey_with(tl, t, s) == tl[t][s]

\* A with_ctx that takes the reference without asking the RefCell.
with_slot_unchecked_borrow(cell) ==
    IF cell.value = None
    THEN [runs |-> FALSE, outcome |-> "outside of a context", ctx |-> None]
    ELSE [runs |-> TRUE, outcome |-> "ok", ctx |-> cell.value]

\* A with_ctx that falls back to the first Context when the slot is empty.
with_slot_unwrap_or_first(cell) ==
    IF cell.borrowed
    THEN [runs |-> FALSE, outcome |-> "BorrowMutError", ctx |-> None]
    ELSE [runs |-> TRUE, outcome |-> "ok", ctx |-> IF cell.value = None THEN 1 ELSE cell.value]

\* The body of with_ctx and of with_zkp_ctx up to f(ctx): borrow_mut() panics
\* if the cell is already borrowed, expect() panics on None, and only then the
\* closure runs, on the Context the slot refers to.
with_slot(cell) ==
    IF cell.borrowed
    THEN [runs |-> FALSE, outcome |-> "BorrowMutError", ctx |-> None]
    ELSE IF cell.value = None
         THEN [runs |-> FALSE, outcome |-> "outside of a context", ctx |-> None]
         ELSE [runs |-> TRUE, outcome |-> "ok", ctx |-> cell.value]

NewContext(s) == IF s = "CURRENT_CTX" THEN Context_new ELSE ZkpContext_new

ContextCount == Len(heap.CURRENT_CTX) + Len(heap.CURRENT_ZKP_CTX)

RECURSIVE NodesIn(_)
\* The nodes of all the Contexts of a sequence.
NodesIn(cs) == IF cs = <<>> THEN 0 ELSE node_count(cs[1]) + NodesIn(Tail(cs))

\* n more nodes fit into the Contexts modelled when these hold max nodes.
HeapRoomOf(n, max) == NodesIn(heap.CURRENT_CTX) + NodesIn(heap.CURRENT_ZKP_CTX) + n <= max

HeapRoom(n) == HeapRoomOf(n, MaxHeapNodes)

Running(t) == thread[t].alive

ThreadTop(t) == thread[t].frames[Len(thread[t].frames)]

InClosure(t, s) ==
    /\ Running(t)
    /\ thread[t].frames # <<>>
    /\ ThreadTop(t).kind = "closure"
    /\ ThreadTop(t).slot = s
    /\ ThreadTop(t).ctx \in 1..Len(heap[s])

\* A construction that leaves the slot set when it fails.
construction_exit_leaves_slot(cells, s) == cells

\* The exit of a construction, normal or failed: its slot is cleared.
construction_exit(cells, s) ==
    [x \in Slots |-> IF x = s THEN RefCell_new(None) ELSE cells[x]]

\* Unwinding drops every RefMut the thread's frames hold.
drop_borrows(cells) == [x \in Slots |-> [cells[x] EXCEPT !.borrowed = FALSE]]

\* A panic on thread t: the stack unwinds.  Inside a construction the failure
\* ends that construction, which reports it; outside of one it ends the thread.
Panic(t, call) ==
    LET s == thread[t].building
    IN /\ tls' = [tls EXCEPT ![t] = IF s = "None" THEN drop_borrows(@)
                                    ELSE construction_exit(drop_borrows(@), s)]
       /\ thread' = [thread EXCEPT ![t] = [alive |-> s # "None", building |-> "None",
                                           frames |-> <<>>, last |-> call]]

\* A top-level construction starts: a new Context is created and the slot of
\* the constructing thread is set to it.
begin_construction(t, s) ==
    /\ Running(t)
    /\ thread[t].building = "None"
    /\ thread[t].frames = <<>>
    /\ ContextCount < MaxContexts
    /\ heap' = [heap EXCEPT ![s] = Append(@, NewContext(s))]
    /\ tls' = [tls EXCEPT ![t][s] = RefCell_new(Len(heap[s]) + 1)]
    /\ thread' = [thread EXCEPT ![t].building = s,
                                ![t].last = ThreadCall("begin_construction", "ok", Len(heap[s]) + 1)]
    /\ UNCHANGED <<builder_vars, compiled, fhe_program_nodes>>

\* The construction returns: the slot is cleared, the Context is the result.
end_construction(t) ==
    /\ Running(t)
    /\ thread[t].building # "None"
    /\ thread[t].frames = <<>>
    /\ tls' = [tls EXCEPT ![t] = construction_exit(@, thread[t].building)]
    /\ thread' = [thread EXCEPT ![t].building = "None",
                                ![t].last = ThreadCall("end_construction", "ok", -1)]
    /\ UNCHANGED <<heap, builder_vars, compiled, fhe_program_nodes>>

\* Thread t calls with_ctx / with_zkp_ctx, from the top level, from inside a
\* running closure or from inside gen_circuit.
with_enter(t, s, name) ==
    /\ Running(t)
    /\ Len(thread[t].frames) < MaxDepth
    /\ LET r == with_slot(LocalKey_with(tls, t, s))
       IN IF r.runs
          THEN /\ tls' = [tls EXCEPT ![t][s].borrowed = TRUE]
               /\ thread' = [thread EXCEPT ![t].frames = Append(@, Frame("closure", s, r.ctx)),
                                           ![t].last = ThreadCall(name, "ok", -1)]
          ELSE Panic(t, ThreadCall(name, r.outcome, -1))
    /\ UNCHANGED <<heap, builder_vars, compiled, fhe_program_nodes>>

with_ctx_enter(t) == with_enter(t, "CURRENT_CTX", "with_ctx")

with_zkp_ctx_enter(t) == with_enter(t, "CURRENT_ZKP_CTX", "with_zkp_ctx")

\* The closure returns and with it with_ctx / with_zkp_ctx: the RefMut is dropped.
with_return(t) ==
    /\ Running(t)
    /\ thread[t].frames # <<>>
    /\ ThreadTop(t).kind = "closure"
    /\ tls' = [tls EXCEPT ![t][ThreadTop(t).slot].borrowed = FALSE]
    /\ thread' = [thread EXCEPT ![t].frames = SubSeq(@, 1, Len(@) - 1),
                                ![t].last = ThreadCall("closure_returns", "ok", -1)]
    /\ UNCHANGED <<heap, builder_vars, compiled, fhe_program_nodes>>

\* The closure of with_ctx calls a builder on the Context it was given.
closure_fhe_builder(t) ==
    /\ InClosure(t, "CURRENT_CTX")
    /\ LET id == ThreadTop(t).ctx
           c == heap.CURRENT_CTX[id]
       IN /\ HeapRoom(1)
          /\ \E call \in {[name |-> "add_ciphertext_input",
                           r |-> StableGraph_add_node(c, Operation("InputCiphertext"))],
                          [name |-> "add_plaintext_input",
                           r |-> StableGraph_add_node(c, Operation("InputPlaintext"))]} :
                /\ heap' = [heap EXCEPT !.CURRENT_CTX[id] = call.r.g]
                /\ thread' = [thread EXCEPT ![t].last = ThreadCall(call.name, "ok", call.r.id)]
    /\ UNCHANGED <<tls, builder_vars, compiled, fhe_program_nodes>>

\* The closure of with_zkp_ctx calls a builder on the ZkpContext it was given;
\* the Contexts modelled hold max nodes.
ClosureZkpBuilder(t, max) ==
    /\ InClosure(t, "CURRENT_ZKP_CTX")
    /\ LET id == ThreadTop(t).ctx
           c == heap.CURRENT_ZKP_CTX[id]
       IN /\ HeapRoomOf(1, max)
          /\ \E call \in {[name |-> "add_public_input", r |-> add_public_input_op(c)],
                          [name |-> "add_private_input", r |-> add_private_input_op(c)]} :
                /\ heap' = [heap EXCEPT !.CURRENT_ZKP_CTX[id] = call.r.c]
                /\ thread' = [thread EXCEPT ![t].last = ThreadCall(call.name, "ok", call.r.id)]
    /\ UNCHANGED <<tls, builder_vars, compiled, fhe_program_nodes>>

closure_zkp_builder(t) == ClosureZkpBuilder(t, MaxHeapNodes)

\* The ids thread t can pass to invoke_gadget: those of its ZkpContext.
ThreadHandles(t) ==
    IF tls[t].CURRENT_ZKP_CTX.value \in 1..Len(heap.CURRENT_ZKP_CTX)
    THEN Handles(heap.CURRENT_ZKP_CTX[tls[t].CURRENT_ZKP_CTX.value])
    ELSE {}

\* The argument lists tried: none, and one handle given twice.
ThreadGadgetInputs(t) == {<<>>} \cup {<<h, h>> : h \in ThreadHandles(t)}

\* A with_zkp_ctx that has not returned when gen_circuit is called: the
\* RefMut is still alive.
with_zkp_ctx_return_borrowed(cell) == [cell EXCEPT !.borrowed = TRUE]

\* with_zkp_ctx returns: the RefMut it took of the cell is dropped.
with_zkp_ctx_return(cell) == [cell EXCEPT !.borrowed = FALSE]

\* Thread t calls invoke_gadget: the assertion, then with_zkp_ctx around the
\* wiring closure, which returns before gen_circuit is entered.
ThreadInvokeGadget(t, max) ==
    /\ Running(t)
    /\ Len(thread[t].frames) < MaxDepth
    /\ \E g \in Gadgets, gadget_inputs \in ThreadGadgetInputs(t) :
          LET r == with_slot(LocalKey_with(tls, t, "CURRENT_ZKP_CTX"))
          IN IF gadget_input_count(g) # Len(gadget_inputs)
             THEN /\ Panic(t, ThreadCall("invoke_gadget", "gadget input mismatch", -1))
                  /\ UNCHANGED heap
             ELSE IF ~r.runs
             THEN /\ Panic(t, ThreadCall("invoke_gadget", r.outcome, -1))
                  /\ UNCHANGED heap
             ELSE /\ r.ctx \in 1..Len(heap.CURRENT_ZKP_CTX)
                  /\ HeapRoomOf(1 + hidden_input_count(g), max)
                  /\ heap' = [heap EXCEPT !.CURRENT_ZKP_CTX[r.ctx] =
                                 wire_gadget(@, g, gadget_inputs).c]
                  /\ thread' = [thread EXCEPT
                        ![t].frames = Append(@, Frame("gen_circuit", "CURRENT_ZKP_CTX", r.ctx)),
                        ![t].last = ThreadCall("invoke_gadget", "gen_circuit", -1)]
                  /\ tls' = [tls EXCEPT ![t].CURRENT_ZKP_CTX = with_zkp_ctx_return(@)]
    /\ UNCHANGED <<builder_vars, compiled, fhe_program_nodes>>

thread_invoke_gadget(t) == ThreadInvokeGadget(t, MaxHeapNodes)

\* gen_circuit returns and with it invoke_gadget.
thread_gen_circuit_returns(t) ==
    /\ Running(t)
    /\ thread[t].frames # <<>>
    /\ ThreadTop(t).kind = "gen_circuit"
    /\ thread' = [thread EXCEPT ![t].frames = SubSeq(@, 1, Len(@) - 1),
                                ![t].last = ThreadCall("invoke_gadget", "ok", -1)]
    /\ UNCHANGED <<tls, heap, builder_vars, compiled, fhe_program_nodes>>

begin_fhe_construction == \E t \in Threads : begin_construction(t, "CURRENT_CTX")

begin_zkp_construction == \E t \in Threads : begin_construction(t, "CURRENT_ZKP_CTX")

construction_ends == \E t \in Threads : end_construction(t)

with_ctx_called == \E t \in Threads : with_ctx_enter(t)

with_zkp_ctx_called == \E t \in Threads : with_zkp_ctx_enter(t)

closure_returns == \E t \in Threads : with_return(t)

fhe_builder_called == \E t \in Threads : closure_fhe_builder(t)

zkp_builder_called == \E t \in Threads : closure_zkp_builder(t)

invoke_gadget_called == \E t \in Threads : thread_invoke_gadget(t)

gen_circuit_returned == \E t \in Threads : thread_gen_circuit_returns(t)

ThreadsNext ==
    \/ begin_fhe_construction
    \/ begin_zkp_construction
    \/ construction_ends
    \/ with_ctx_called
    \/ with_zkp_ctx_called
    \/ closure_returns
    \/ fhe_builder_called
    \/ zkp_builder_called
    \/ invoke_gadget_called
    \/ gen_circuit_returned

\* No thread has started, no Context exists, every slot holds None.
\* No Context has been lowered yet.
NotCompiled ==
    [calls |-> 0, slot |-> "None", index |-> 0, outcome |-> "none", message |-> "",
     graph |-> EmptyGraph, ret |-> <<>>]

InitThreadVars ==
    /\ tls = [t \in Threads |-> [s \in Slots |-> RefCell_new(None)]]
    /\ heap = [s \in Slots |-> <<>>]
    /\ compiled = NotCompiled
    /\ fhe_program_nodes = HashMap_new
    /\ thread = [t \in Threads |-> [alive |-> TRUE, building |-> "None",
                                    frames |-> <<>>, last |-> NoThreadCall]]

(***************************************************************************)
(* One construction: an FHE program or a ZKP program is being built.       *)
(***************************************************************************)
Init ==
    /\ CURRENT_CTX \in BOOLEAN
    /\ CURRENT_ZKP_CTX = ~CURRENT_CTX
    /\ ctx = Context_new
    /\ literal_ids = [l \in Literals |-> -1]
    /\ zkp_ctx = ZkpContext_new
    /\ gadget_stack = <<>>
    /\ last = NoCall
    /\ panicked = FALSE
    /\ InitThreadVars

Next == FheNext \/ ZkpNext

Spec == Init /\ [][Next]_vars

\* The construction of an FHE program alone.
InitFhe == Init /\ CURRENT_CTX

SpecFhe == InitFhe /\ [][FheNext]_vars

\* The construction of a ZKP program alone.
InitZkp == Init /\ CURRENT_ZKP_CTX

SpecZkp == InitZkp /\ [][ZkpNext]_vars

\* Constructions on several threads, each through its own slots.
InitThreads ==
    /\ CURRENT_CTX = FALSE
    /\ CURRENT_ZKP_CTX = FALSE
    /\ ctx = Context_new
    /\ literal_ids = [l \in Literals |-> -1]
    /\ zkp_ctx = ZkpContext_new
    /\ gadget_stack = <<>>
    /\ last = NoCall
    /\ panicked = FALSE
    /\ InitThreadVars

SpecThreads == InitThreads /\ [][ThreadsNext]_vars

\* The construction of an FHE program by a caller that passes any NodeIndex.
SpecFheOperands == InitFhe /\ [][FheOperandsNext]_vars

\* The values of an FHE program ask the Context for their FheProgramNodes.
SpecFheNodes == InitFhe /\ [][get_fhe_program_node]_vars

\* Operations of the ZKP frontend are compared and hashed.
SpecOperationEq == InitZkp /\ [][operation_eq]_vars

(***************************************************************************)
(* One thread builds ZKP programs whose gadgets call builders and invoke   *)
(* further gadgets from inside gen_circuit.                                *)
(***************************************************************************)
MainThread == "A"

zkp_program_begins == begin_construction(MainThread, "CURRENT_ZKP_CTX")

zkp_program_ends == end_construction(MainThread)

main_with_zkp_ctx_called == with_zkp_ctx_enter(MainThread)

main_closure_returns == with_return(MainThread)

main_zkp_builder_called == ClosureZkpBuilder(MainThread, MaxGadgetNodes)

main_invoke_gadget_called == ThreadInvokeGadget(MainThread, MaxGadgetNodes)

main_gen_circuit_returned == thread_gen_circuit_returns(MainThread)

GenCircuitNext ==
    \/ zkp_program_begins
    \/ zkp_program_ends
    \/ main_with_zkp_ctx_called
    \/ main_closure_returns
    \/ main_zkp_builder_called
    \/ main_invoke_gadget_called
    \/ main_gen_circuit_returned

SpecGenCircuit == InitThreads /\ [][GenCircuitNext]_vars

(***************************************************************************)
(* Contexts built by calling the builders on them directly, without the    *)
(* thread-local slots: one Context that is then lowered, or two Contexts   *)
(* built side by side and then compared.                                   *)
(***************************************************************************)
MaxLowerNodes == 3

MaxCompileNodes == 2

MaxCompiles == 2

MaxPairNodes == 3

\* The builder calls that made c: every call adds one node that is not a
\* hidden input.
BuilderCalls(c) == Cardinality({i \in NodeIds(c) : ~WiredHiddenInput(c, i)})

ContextRoom(c) == BuilderCalls(c) < MaxLowerNodes

PairRoom(c) == BuilderCalls(c) < MaxPairNodes

\* The graphs one more FHE builder call can make of c.
FheBuilderResults(c) ==
    {StableGraph_add_node(c, Operation(k)).g : k \in FheInputKinds}
    \cup {add_literal_op(c, l).g : l \in Literals}
    \cup {add_literal_op(c, Literal_Plaintext(p)).g : p \in PlaintextValues}
    \cup {add_plaintext_literal_op(c, p).g : p \in PlaintextValues}
    \cup {add_2_input(c, Operation(k[1]), k[2], k[3]).g :
             k \in FheBinaryKinds \X NodeIds(c) \X NodeIds(c)}
    \cup {add_1_input(c, Operation(k[1]), k[2]).g : k \in FheUnaryKinds \X NodeIds(c)}

\* The ZkpContexts one more ZKP builder call or gadget wiring can make of c.
ZkpBuilderResults(c) ==
    {add_public_input_op(c).c, add_private_input_op(c).c, add_constant_input_op(c).c}
    \cup {add_binary_operation(c, ZkpOperation(k[1], 0), k[2], k[3]).c :
             k \in {"Add", "Mul", "Sub"} \X Handles(c) \X Handles(c)}
    \cup {add_unary_operation(c, ZkpOperation("Neg", 0), i).c : i \in Handles(c)}
    \cup {add_constraint_op(c, k[1], k[2]).c : k \in Handles(c) \X Values}
    \cup {add_constant_op(c, v).c : v \in Values}
    \cup {add_hidden_input(c, v).c : v \in Values}
    \cup {add_invoke_gadget(c, g).c : g \in Gadgets}
    \cup UNION {{wire_gadget(c, g, gadget_inputs).c :
                    gadget_inputs \in [1..gadget_input_count(g) -> Handles(c)]} :
                g \in Gadgets}

\* The builders called on the Contexts that are built side by side: an input
\* builder, add_literal of one value and a binary operation; for ZKP the two
\* input builders and a unary operation.
FhePairResults(c) ==
    {StableGraph_add_node(c, Operation("InputCiphertext")).g}
    \cup {add_literal_op(c, Literal_U64(0)).g}
    \cup {add_2_input(c, Operation("Sub"), k[1], k[2]).g : k \in NodeIds(c) \X NodeIds(c)}

ZkpPairResults(c) ==
    {add_public_input_op(c).c, add_private_input_op(c).c}
    \cup {add_unary_operation(c, ZkpOperation("Neg", 0), i).c : i \in Handles(c)}

\* A builder of Context is called on one of the FHE Contexts.
fhe_context_built ==
    /\ compiled = NotCompiled
    /\ \E i \in 1..Len(heap.CURRENT_CTX) :
          /\ ContextRoom(heap.CURRENT_CTX[i])
          /\ \E g \in FheBuilderResults(heap.CURRENT_CTX[i]) :
                heap' = [heap EXCEPT !.CURRENT_CTX[i] = g]
    /\ UNCHANGED <<tls, thread, builder_vars, compiled, fhe_program_nodes>>

\* A builder of ZkpContextOps, or the wiring of invoke_gadget, runs on one of
\* the ZkpContexts, as long as the Context stays within MaxLowerNodes nodes.
zkp_context_built ==
    /\ compiled = NotCompiled
    /\ \E i \in 1..Len(heap.CURRENT_ZKP_CTX) :
          /\ node_count(heap.CURRENT_ZKP_CTX[i]) < MaxLowerNodes
          /\ \E c \in ZkpBuilderResults(heap.CURRENT_ZKP_CTX[i]) :
                /\ node_count(c) <= MaxLowerNodes
                /\ heap' = [heap EXCEPT !.CURRENT_ZKP_CTX[i] = c]
    /\ UNCHANGED <<tls, thread, builder_vars, compiled, fhe_program_nodes>>

\* A builder is called on one of two FHE Contexts built side by side.
fhe_pair_built ==
    \E i \in 1..Len(heap.CURRENT_CTX) :
       /\ PairRoom(heap.CURRENT_CTX[i])
       /\ \E g \in FhePairResults(heap.CURRENT_CTX[i]) :
             heap' = [heap EXCEPT !.CURRENT_CTX[i] = g]
       /\ UNCHANGED <<tls, thread, builder_vars, compiled, fhe_program_nodes>>

\* A builder is called on one of two ZkpContexts built side by side.
zkp_pair_built ==
    \E i \in 1..Len(heap.CURRENT_ZKP_CTX) :
       /\ PairRoom(heap.CURRENT_ZKP_CTX[i])
       /\ \E c \in ZkpPairResults(heap.CURRENT_ZKP_CTX[i]) :
             heap' = [heap EXCEPT !.CURRENT_ZKP_CTX[i] = c]
       /\ UNCHANGED <<tls, thread, builder_vars, compiled, fhe_program_nodes>>

(***************************************************************************)
(* Structural equality: petgraph's is_isomorphic_matching with n1 == n2 on *)
(* the node weights and e1 == e2 on the edge weights.                      *)
(***************************************************************************)
\* The weight of an edge: what it carries besides its two ends.
EdgeWeight(e) == e.role

\* The edges of g from u to v, one index per parallel edge.
EdgesBetween(g, u, v) ==
    {k \in 1..Len(g.edges) : g.edges[k].from = u /\ g.edges[k].to = v}

\* The edge from u to v that a walk over the edges of u finds first: the
\* adjacency list of a node starts with the edge added last.
FirstEdgeBetween(g, u, v) ==
    CHOOSE k \in EdgesBetween(g, u, v) : \A j \in EdgesBetween(g, u, v) : j <= k

\* The relabelings of the nodes of g.
Relabelings(g) ==
    {p \in [NodeIds(g) -> NodeIds(g)] : \A i \in NodeIds(g), j \in NodeIds(g) : p[i] = p[j] => i = j}

\* The graphs compared node index by node index.
is_isomorphic_matching_by_index(g, h) ==
    /\ g.nodes = h.nodes
    /\ {g.edges[k] : k \in 1..Len(g.edges)} = {h.edges[k] : k \in 1..Len(h.edges)}

\* The VF2 matcher: a relabeling is accepted when matched nodes carry equal
\* weights and have as many outgoing and as many incoming edges, when two
\* nodes are adjacent exactly if their images are, and when, for every
\* adjacent pair, the first edge found between the two nodes and the first
\* edge found between their images carry equal weights.  Parallel edges
\* behind the first one are counted and their weights are not compared.
is_isomorphic_matching(g, h) ==
    /\ node_count(g) = node_count(h)
    /\ edge_count(g) = edge_count(h)
    /\ \E p \in Relabelings(g) :
          /\ \A i \in NodeIds(g) :
                /\ g.nodes[i + 1] = h.nodes[p[i] + 1]
                /\ Cardinality(OutEdges(g, i)) = Cardinality(OutEdges(h, p[i]))
                /\ Cardinality(InEdges(g, i)) = Cardinality(InEdges(h, p[i]))
          /\ \A u \in NodeIds(g), v \in NodeIds(g) :
                /\ (EdgesBetween(g, u, v) = {}) = (EdgesBetween(h, p[u], p[v]) = {})
                /\ EdgesBetween(g, u, v) # {} =>
                      EdgeWeight(g.edges[FirstEdgeBetween(g, u, v)])
                         = EdgeWeight(h.edges[FirstEdgeBetween(h, p[u], p[v])])

(***************************************************************************)
(* Lowering.  FrontendCompilation::compile maps the FHE graph to the       *)
(* backend's tags and hands the result to the backend compiler;            *)
(* zkp::compile maps the ZKP graph and compacts the node indices.          *)
(***************************************************************************)
FheProgramLiteral_None == [lit |-> "None", val |-> 0, bytes |-> <<>>]

FheProgramLiteral_U64(x) == [lit |-> "U64", val |-> x, bytes |-> <<>>]

FheProgramLiteral_Plaintext(b) == [lit |-> "Plaintext", val |-> 0, bytes |-> b]

NoIndex == -1

FheProgramOperation(op) == [op |-> op, index |-> NoIndex, literal |-> FheProgramLiteral_None]

FheProgramOperation_Input(op, index) ==
    [op |-> op, index |-> index, literal |-> FheProgramLiteral_None]

FheProgramOperation_Literal(l) == [op |-> "Literal", index |-> NoIndex, literal |-> l]

NodeInfo_new(operation) == [operation |-> operation]

Ok(v) == [ok |-> TRUE, val |-> v, err |-> ""]

\* The Err of to_bytes carries the error SerializeError.
Err == [ok |-> FALSE, val |-> <<>>, err |-> "SerializeError"]

\* Plaintext::to_bytes: Ok(the encoded value as bytes, low byte first), or Err
\* for a plaintext that cannot be serialized.
to_bytes(x) ==
    IF x = Unserializable THEN Err ELSE Ok(<<x % 256, (x \div 256) % 256>>)

\* result.expect(msg): the value of an Ok; an Err panics with msg.
expect(result) == result.val

expect_panics(result) == ~result.ok

\* The payload of the panic of result.expect(msg) on an Err: msg, a colon and
\* the Debug form of the error.
expect_message(result, msg) == msg \o ": " \o result.err

\* sunscreen_backend::compile_inplace(fhe_program): the backend compiler, an
\* external collaborator of the lowering pass.  What it returns is kept as the
\* application itself.
compile_inplace(fhe_program) == [fn |-> "compile_inplace", fhe_program |-> fhe_program]

\* A node closure that lowers both rotations to ShiftLeft.
fhe_map_node_one_shift(id, n) ==
    CASE n.kind \in {"RotateLeft", "RotateRight"} ->
            NodeInfo_new(FheProgramOperation("ShiftLeft"))
      [] n.kind = "Output" -> NodeInfo_new(FheProgramOperation("OutputCiphertext"))
      [] n.kind \in FheInputKinds -> NodeInfo_new(FheProgramOperation_Input(n.kind, id))
      [] n.kind = "Literal" /\ n.literal.lit = "U64" ->
            NodeInfo_new(FheProgramOperation_Literal(FheProgramLiteral_U64(n.literal.val)))
      [] n.kind = "Literal" /\ n.literal.lit = "Plaintext" ->
            NodeInfo_new(FheProgramOperation_Literal(
                FheProgramLiteral_Plaintext(expect(to_bytes(n.literal.val)))))
      [] OTHER -> NodeInfo_new(FheProgramOperation(n.kind))

\* The node closure of FrontendCompilation::compile: |id, n| match n { .. }.
fhe_map_node(id, n) ==
    CASE n.kind = "Add" -> NodeInfo_new(FheProgramOperation("Add"))
      [] n.kind = "InputCiphertext" ->
            NodeInfo_new(FheProgramOperation_Input("InputCiphertext", id))
      [] n.kind = "InputPlaintext" ->
            NodeInfo_new(FheProgramOperation_Input("InputPlaintext", id))
      [] n.kind = "Literal" /\ n.literal.lit = "U64" ->
            NodeInfo_new(FheProgramOperation_Literal(FheProgramLiteral_U64(n.literal.val)))
      [] n.kind = "Literal" /\ n.literal.lit = "Plaintext" ->
            NodeInfo_new(FheProgramOperation_Literal(
                FheProgramLiteral_Plaintext(expect(to_bytes(n.literal.val)))))
      [] n.kind = "Sub" -> NodeInfo_new(FheProgramOperation("Sub"))
      [] n.kind = "SubPlaintext" -> NodeInfo_new(FheProgramOperation("SubPlaintext"))
      [] n.kind = "Negate" -> NodeInfo_new(FheProgramOperation("Negate"))
      [] n.kind = "Multiply" -> NodeInfo_new(FheProgramOperation("Multiply"))
      [] n.kind = "MultiplyPlaintext" ->
            NodeInfo_new(FheProgramOperation("MultiplyPlaintext"))
      [] n.kind = "Output" -> NodeInfo_new(FheProgramOperation("OutputCiphertext"))
      [] n.kind = "RotateLeft" -> NodeInfo_new(FheProgramOperation("ShiftLeft"))
      [] n.kind = "RotateRight" -> NodeInfo_new(FheProgramOperation("ShiftRight"))
      [] n.kind = "SwapRows" -> NodeInfo_new(FheProgramOperation("SwapRows"))
      [] n.kind = "AddPlaintext" -> NodeInfo_new(FheProgramOperation("AddPlaintext"))

\* The edge closure of FrontendCompilation::compile: |_, e| match e { .. }.
fhe_map_edge(e) ==
    CASE e = "Left" -> "LeftOperand"
      [] e = "Right" -> "RightOperand"
      [] e = "Unary" -> "UnaryOperand"

\* A map that turns every edge around.
mapped_graph_reversed(g) ==
    [nodes |-> [i \in 1..Len(g.nodes) |-> fhe_map_node(i - 1, g.nodes[i])],
     edges |-> [k \in 1..Len(g.edges) |->
                  [from |-> g.edges[k].to, to |-> g.edges[k].from,
                   role |-> fhe_map_edge(g.edges[k].role)]]]

\* self.graph.map(node closure, edge closure): same indices, mapped weights.
mapped_graph(g) ==
    [nodes |-> [i \in 1..Len(g.nodes) |-> fhe_map_node(i - 1, g.nodes[i])],
     edges |-> [k \in 1..Len(g.edges) |->
                  [from |-> g.edges[k].from, to |-> g.edges[k].to,
                   role |-> fhe_map_edge(g.edges[k].role)]]]

\* fhe_program.graph = StableGraph::from(mapped_graph): the lowered graph, as
\* it is handed to the backend's compile_inplace.
fhe_program_graph(g) == mapped_graph(g)

JitOperation(op, arg) == [jit |-> op, arg |-> arg, gadget |-> "None"]

JitOperation_InvokeGadget(g) == [jit |-> "InvokeGadget", arg |-> 0, gadget |-> g]

\* The node closure of zkp::compile: |_, n| match n.operation { .. }.
jit_map_node(id, n) ==
    [operation |->
        CASE n.kind = "PrivateInput" -> JitOperation("PrivateInput", n.arg)
          [] n.kind = "PublicInput" -> JitOperation("PublicInput", n.arg)
          [] n.kind = "ConstantInput" -> JitOperation("ConstantInput", n.arg)
          [] n.kind = "HiddenInput" -> JitOperation("HiddenInput", n.arg)
          [] n.kind = "InvokeGadget" -> JitOperation_InvokeGadget(n.gadget)
          [] n.kind = "Add" -> JitOperation("Add", 0)
          [] n.kind = "Mul" -> JitOperation("Mul", 0)
          [] n.kind = "Neg" -> JitOperation("Neg", 0)
          [] n.kind = "Sub" -> JitOperation("Sub", 0)
          [] n.kind = "Constraint" -> JitOperation("Constraint", n.arg)
          [] n.kind = "Constant" -> JitOperation("Constant", n.arg)]

\* The edge closure of zkp::compile: |_, e| *e.
jit_map_edge(e) == e

\* program.0.map(node closure, edge closure).
jit(c) ==
    [nodes |-> [i \in 1..Len(c.nodes) |-> jit_map_node(i - 1, c.nodes[i])],
     edges |-> [k \in 1..Len(c.edges) |->
                  [from |-> c.edges[k].from, to |-> c.edges[k].to,
                   role |-> jit_map_edge(c.edges[k].role)]]]

\* A node slot of a StableGraph whose node was removed.
Vacant == [operation |-> [jit |-> "Vacant", arg |-> 0, gadget |-> "None"]]

\* Graph::from(stable_graph): node_index_map, the index a node gets when the
\* occupied slots are numbered 0, 1, 2, ... in slot order.
node_index_map(g, i) ==
    Cardinality({j \in NodeIds(g) : j < i /\ g.nodes[j + 1] # Vacant})

\* Graph::from(stable_graph).into(): the occupied nodes in slot order, and the
\* edges between them in edge order, on the new indices.
Graph_from(g) ==
    LET occupied(n) == n # Vacant
        kept(e) == g.nodes[e.from + 1] # Vacant /\ g.nodes[e.to + 1] # Vacant
        renumbered(e) == [from |-> node_index_map(g, e.from),
                          to |-> node_index_map(g, e.to),
                          role |-> e.role]
        result_edges[k \in 0..Len(g.edges)] ==
            IF k = 0 THEN <<>>
            ELSE IF kept(g.edges[k]) THEN Append(result_edges[k - 1], renumbered(g.edges[k]))
                 ELSE result_edges[k - 1]
    IN [nodes |-> SelectSeq(g.nodes, occupied),
        edges |-> result_edges[Len(g.edges)]]

\* zkp::compile(program).
compile(c) == Graph_from(jit(c))

\* The node closure panics: expect on the Err of to_bytes.
fhe_map_node_panics(id, n) ==
    /\ n.kind = "Literal"
    /\ n.literal.lit = "Plaintext"
    /\ expect_panics(to_bytes(n.literal.val))

\* A compile that calls expect on the bytes of every literal, U64 included.
FrontendCompilation_compile_every_literal(g) ==
    IF \E i \in NodeIds(g) : g.nodes[i + 1].kind = "Literal"
    THEN [outcome |-> "panic",
          message |-> expect_message(Err, "Failed to serialize plaintext."),
          graph |-> EmptyGraph, ret |-> <<>>]
    ELSE [outcome |-> "ok", message |-> "", graph |-> fhe_program_graph(g),
          ret |-> compile_inplace(fhe_program_graph(g))]

\* FrontendCompilation::compile(&self): what compile_inplace returns for the
\* lowered program, or the panic of the first expect that fails.  graph is
\* fhe_program.graph as it is handed to the backend.
FrontendCompilation_compile(g) ==
    LET failing == {i \in NodeIds(g) : fhe_map_node_panics(i, g.nodes[i + 1])}
    IN IF failing # {}
       THEN LET i == CHOOSE i \in failing : \A j \in failing : i <= j
            IN [outcome |-> "panic",
                message |-> expect_message(to_bytes(g.nodes[i + 1].literal.val),
                                           "Failed to serialize plaintext."),
                graph |-> EmptyGraph, ret |-> <<>>]
       ELSE [outcome |-> "ok", message |-> "", graph |-> fhe_program_graph(g),
             ret |-> compile_inplace(fhe_program_graph(g))]

\* zkp::compile(program) has no failing arm.
zkp_compile(c) == [outcome |-> "ok", message |-> "", graph |-> compile(c), ret |-> compile(c)]

\* The lowering pass is called on Context i of slot s and ends as r.  The
\* pass borrows the Context (&self, program: &ZkpFrontendCompilation), so the
\* heap is not written.  A second call lowers the same Context again.
CompileStep(s, i, r) ==
    /\ compiled.calls < MaxCompiles
    /\ compiled.calls > 0 => compiled.slot = s /\ compiled.index = i
    /\ BuilderCalls(heap[s][i]) <= MaxCompileNodes
    /\ compiled' = [calls |-> compiled.calls + 1, slot |-> s, index |-> i,
                    outcome |-> r.outcome, message |-> r.message,
                    graph |-> r.graph, ret |-> r.ret]
    /\ UNCHANGED <<heap, tls, thread, builder_vars, fhe_program_nodes>>

fhe_compile_called ==
    \E i \in 1..Len(heap.CURRENT_CTX) :
        CompileStep("CURRENT_CTX", i, FrontendCompilation_compile(heap.CURRENT_CTX[i]))

zkp_compile_called ==
    \E i \in 1..Len(heap.CURRENT_ZKP_CTX) :
        CompileStep("CURRENT_ZKP_CTX", i, zkp_compile(heap.CURRENT_ZKP_CTX[i]))

ContextsNext ==
    \/ fhe_context_built
    \/ zkp_context_built
    \/ fhe_compile_called
    \/ zkp_compile_called

\* n empty Contexts of one scheme.
InitContexts(n) ==
    /\ CURRENT_CTX = FALSE
    /\ CURRENT_ZKP_CTX = FALSE
    /\ ctx = Context_new
    /\ literal_ids = [l \in Literals |-> -1]
    /\ zkp_ctx = ZkpContext_new
    /\ gadget_stack = <<>>
    /\ last = NoCall
    /\ panicked = FALSE
    /\ tls = [t \in Threads |-> [s \in Slots |-> RefCell_new(None)]]
    /\ thread = [t \in Threads |-> [alive |-> TRUE, building |-> "None",
                                    frames |-> <<>>, last |-> NoThreadCall]]
    /\ compiled = NotCompiled
    /\ fhe_program_nodes = HashMap_new
    /\ heap \in {[CURRENT_CTX |-> [i \in 1..n |-> Context_new], CURRENT_ZKP_CTX |-> <<>>],
                 [CURRENT_CTX |-> <<>>, CURRENT_ZKP_CTX |-> [i \in 1..n |-> ZkpContext_new]]}

\* One Context is built, to be lowered.
SpecLowering == InitContexts(1) /\ [][ContextsNext]_vars

PairNext ==
    \/ fhe_pair_built
    \/ zkp_pair_built

\* Two Contexts of one scheme are built side by side.
SpecPair == InitContexts(2) /\ [][PairNext]_vars


(***************************************************************************)
(* Properties                                                              *)
(***************************************************************************)
Top(stack) == stack[Len(stack)]

\* This step is invoke_gadget reaching gen_circuit.
EntersGenCircuit == Len(gadget_stack') = Len(gadget_stack) + 1

\* This step is invoke_gadget panicking.
InvokeGadgetPanics == ~panicked /\ panicked' /\ last'.op = "invoke_gadget"

\* This step is gen_circuit, and with it invoke_gadget, returning.
InvokeGadgetReturns == Len(gadget_stack') = Len(gadget_stack) - 1

\* This step is an invoke_gadget call whose input count is not the gadget's.
MismatchedInvoke ==
    \/ /\ EntersGenCircuit
       /\ Len(Top(gadget_stack').args) # gadget_input_count(Top(gadget_stack').gadget)
    \/ /\ InvokeGadgetPanics
       /\ Len(last'.args) # gadget_input_count(last'.gadget)

\* C1: invoke_gadget with gadget_inputs.len() != gadget_input_count panics
\* before any mutation: the ZKP context's nodes and edges (and their counts)
\* are the same after the failed call, and gen_circuit is not invoked.
C1_MismatchPanicsBeforeMutation ==
    [][MismatchedInvoke =>
          /\ panicked'
          /\ zkp_ctx'.nodes = zkp_ctx.nodes
          /\ zkp_ctx'.edges = zkp_ctx.edges
          /\ node_count(zkp_ctx') = node_count(zkp_ctx)
          /\ edge_count(zkp_ctx') = edge_count(zkp_ctx)
          /\ gadget_stack' = gadget_stack
          /\ ~last'.gen.called]_vars

C1_Witness ==
    /\ panicked
    /\ last.op = "invoke_gadget"
    /\ last.gadget = "GA"
    /\ Len(last.args) = 1
    /\ node_count(zkp_ctx) >= 2
    /\ edge_count(zkp_ctx) >= 1

\* C2: a successful invoke_gadget adds, before gen_circuit runs, exactly one
\* InvokeGadget node and h HiddenInput nodes, exactly h Unary edges from the
\* invocation node to those hidden inputs, and exactly n Ordered edges into
\* the invocation node, the one with position i coming from gadget_inputs[i];
\* nothing else is added or changed.
C2_WiringStep ==
    [][EntersGenCircuit =>
          LET f == Top(gadget_stack')
              n == gadget_input_count(f.gadget)
              h == hidden_input_count(f.gadget)
              oldN == Len(zkp_ctx.nodes)
              oldE == Len(zkp_ctx.edges)
              new == zkp_ctx'
              newNodes == (oldN + 1)..Len(new.nodes)
              newEdges == (oldE + 1)..Len(new.edges)
              inv == {p \in newNodes : new.nodes[p].kind = "InvokeGadget"}
              hid == {p \in newNodes : new.nodes[p].kind = "HiddenInput"}
              unary == {k \in newEdges : new.edges[k].role.role = "Unary"}
              ordered == {k \in newEdges : new.edges[k].role.role = "Ordered"}
          IN /\ SubSeq(new.nodes, 1, oldN) = zkp_ctx.nodes
             /\ SubSeq(new.edges, 1, oldE) = zkp_ctx.edges
             /\ new.data = zkp_ctx.data
             /\ Len(new.nodes) = oldN + 1 + h
             /\ Cardinality(inv) = 1
             /\ Cardinality(hid) = h
             /\ \A p \in inv : new.nodes[p].gadget = f.gadget
             /\ Len(new.edges) = oldE + h + n
             /\ Cardinality(unary) = h
             /\ Cardinality(ordered) = n
             /\ \A k \in unary : new.edges[k].from + 1 \in inv /\ new.edges[k].to + 1 \in hid
             /\ \A p \in hid : Cardinality({k \in unary : new.edges[k].to + 1 = p}) = 1
             /\ \A k \in ordered : new.edges[k].to + 1 \in inv
             /\ \A i \in 0..(n - 1) :
                   LET at == {k \in ordered : new.edges[k].role.pos = i}
                   IN /\ Cardinality(at) = 1
                      /\ \A k \in at : new.edges[k].from = f.args[i + 1]]_vars

C2_Witness ==
    /\ gadget_stack # <<>>
    /\ Top(gadget_stack).gadget = "GA"
    /\ Top(gadget_stack).args[1] # Top(gadget_stack).args[2]
    /\ node_count(zkp_ctx) = Top(gadget_stack).node + 2

\* C3: in every reachable state every InvokeGadget node has exactly
\* hidden_input_count outgoing Unary edges, each to a HiddenInput node that
\* its own invocation created, and exactly gadget_input_count incoming Ordered
\* edges whose positions are 0..gadget_input_count-1, none repeated.
C3_InvokeGadgetShape ==
    \A i \in NodeIds(zkp_ctx) :
       zkp_ctx.nodes[i + 1].kind = "InvokeGadget" =>
          LET g == zkp_ctx.nodes[i + 1].gadget
              n == gadget_input_count(g)
              h == hidden_input_count(g)
              unary == {k \in OutEdges(zkp_ctx, i) : zkp_ctx.edges[k].role.role = "Unary"}
              ordered == {k \in InEdges(zkp_ctx, i) : zkp_ctx.edges[k].role.role = "Ordered"}
          IN /\ Cardinality(unary) = h
             /\ {zkp_ctx.edges[k].to : k \in unary} = (i + 1)..(i + h)
             /\ \A j \in 1..h : zkp_ctx.nodes[i + j + 1] = ZkpOperation("HiddenInput", j - 1)
             /\ Cardinality(ordered) = n
             /\ \A pos \in 0..(n - 1) :
                   Cardinality({k \in ordered : zkp_ctx.edges[k].role.pos = pos}) = 1

\* C4: whenever invoke_gadget calls gen_circuit, the first argument is the
\* caller's gadget_inputs, unchanged and of length gadget_input_count, the
\* second is the sequence of the hidden-input nodes just created, of length
\* hidden_input_count, and invoke_gadget returns what gen_circuit returned.
C4_GenCircuitArguments ==
    [][/\ EntersGenCircuit =>
             LET f == Top(gadget_stack')
             IN /\ f.gadget_inputs = f.args
                /\ Len(f.gadget_inputs) = gadget_input_count(f.gadget)
                /\ Len(f.hidden_inputs) = hidden_input_count(f.gadget)
                /\ \A j \in 1..Len(f.hidden_inputs) :
                      /\ f.hidden_inputs[j] \notin NodeIds(zkp_ctx)
                      /\ f.hidden_inputs[j] \in NodeIds(zkp_ctx')
                      /\ zkp_ctx'.nodes[f.hidden_inputs[j] + 1].kind = "HiddenInput"
                /\ Cardinality(Range(f.hidden_inputs)) = Len(f.hidden_inputs)
       /\ InvokeGadgetReturns =>
             /\ last'.op = "invoke_gadget"
             /\ last'.gen.called
             /\ last'.gen.gadget_inputs = last'.args
             /\ last'.gen.hidden_inputs = Top(gadget_stack).hidden_inputs
             /\ last'.ret = last'.gen.ret]_vars

C4_Witness ==
    /\ last.op = "invoke_gadget"
    /\ last.gen.called
    /\ last.gadget = "GB"
    /\ Len(last.gen.hidden_inputs) = 2
    /\ Len(last.ret) = 1
    /\ last.ret # last.gen.hidden_inputs

IsLiteralNode(c, i) == c.nodes[i + 1].kind = "Literal"

\* This step is a call of Context::add_literal.
AddLiteralStep == last'.op = "add_literal" /\ <<ctx, last, literal_ids>>' # <<ctx, last, literal_ids>>

\* C5: add_literal returns the id of an existing literal node with an equal
\* value, adding no node and no edge, and otherwise adds exactly one Literal
\* node and returns its fresh id; the same value inserted twice gets the same
\* id both times, two distinct values get two distinct ids.
C5_AddLiteralDeduplicates ==
    [][AddLiteralStep =>
          LET l == last'.literal
              id == last'.ret[1]
              existing == matching_literals(ctx, l)
          IN /\ Len(last'.ret) = 1
             /\ IF existing # {}
                THEN /\ id \in existing
                     /\ ctx' = ctx
                ELSE /\ id = node_count(ctx)
                     /\ ctx'.nodes = Append(ctx.nodes, Operation_Literal(l))
                     /\ ctx'.edges = ctx.edges
             /\ literal_ids[l] # -1 => id = literal_ids[l]
             /\ \A m \in Literals \ {l} : literal_ids[m] # id]_vars

C5_Witness ==
    /\ last.op = "add_literal"
    /\ node_count(ctx) = 2
    /\ last.ret[1] = 0
    /\ \E m \in Literals \ {last.literal} : literal_ids[m] = 1

\* C6: after any sequence of FHE builder calls, add_literal and
\* add_plaintext_literal included, the graph holds at most one Literal node
\* per distinct literal value.
C6_AtMostOneLiteralPerValue ==
    \A i \in NodeIds(ctx), j \in NodeIds(ctx) :
       (/\ IsLiteralNode(ctx, i)
        /\ IsLiteralNode(ctx, j)
        /\ ctx.nodes[i + 1].literal = ctx.nodes[j + 1].literal) => i = j

\* C7: add_constant called twice with the same value returns the same node
\* id, so a ZKP context never holds two Constant nodes with the same value.
C7_AtMostOneConstantPerValue ==
    \A i \in NodeIds(zkp_ctx), j \in NodeIds(zkp_ctx) :
       (/\ zkp_ctx.nodes[i + 1].kind = "Constant"
        /\ zkp_ctx.nodes[j + 1].kind = "Constant"
        /\ zkp_ctx.nodes[i + 1].arg = zkp_ctx.nodes[j + 1].arg) => i = j

RolesInto(g, n, role) == {k \in InEdges(g, n) : g.edges[k].role = role}

\* C8: after every FHE builder call every binary-operation node has in-degree
\* exactly 2, one Left edge and one Right edge, and the node a binary builder
\* has just returned has its Left edge from the call's left operand and its
\* Right edge from the call's right operand.
C8_BinaryNodeShape ==
    /\ \A i \in NodeIds(ctx) :
          ctx.nodes[i + 1].kind \in FheBinaryKinds =>
             /\ Cardinality(InEdges(ctx, i)) = 2
             /\ Cardinality(RolesInto(ctx, i, "Left")) = 1
             /\ Cardinality(RolesInto(ctx, i, "Right")) = 1
    /\ (CURRENT_CTX /\ last.op \in DOMAIN FheBinaryBuilders /\ last.ret # <<>>) =>
          LET id == last.ret[1]
          IN /\ id = node_count(ctx) - 1
             /\ ctx.nodes[id + 1] = Operation(FheBinaryBuilders[last.op])
             /\ \A k \in RolesInto(ctx, id, "Left") : ctx.edges[k].from = last.args[1]
             /\ \A k \in RolesInto(ctx, id, "Right") : ctx.edges[k].from = last.args[2]

\* C9: after every FHE builder call every unary-operation node (Negate,
\* SwapRows, Output) has in-degree exactly 1, and that edge has role Unary and
\* comes from the operand given to the call.
C9_UnaryNodeShape ==
    /\ \A i \in NodeIds(ctx) :
          ctx.nodes[i + 1].kind \in FheUnaryKinds =>
             /\ Cardinality(InEdges(ctx, i)) = 1
             /\ Cardinality(RolesInto(ctx, i, "Unary")) = 1
    /\ (CURRENT_CTX /\ last.op \in DOMAIN FheUnaryBuilders /\ last.ret # <<>>) =>
          LET id == last.ret[1]
          IN /\ id = node_count(ctx) - 1
             /\ ctx.nodes[id + 1] = Operation(FheUnaryBuilders[last.op])
             /\ \A k \in InEdges(ctx, id) : ctx.edges[k].from = last.args[1]

FheLeafKinds == FheInputKinds \cup {"Literal"}

ZkpLeafKinds == {"PrivateInput", "PublicInput", "ConstantInput", "Constant"}

InDegreeZero(g, kinds) ==
    \A i \in NodeIds(g) : g.nodes[i + 1].kind \in kinds => InEdges(g, i) = {}

\* C10 as stated: every input node of any kind, HiddenInput included, every
\* literal node and every constant node has in-degree exactly 0.
C10_Original ==
    /\ InDegreeZero(ctx, FheLeafKinds)
    /\ InDegreeZero(zkp_ctx, ZkpLeafKinds \cup {"HiddenInput"})

\* The node h is a hidden input that invoke_gadget wired to the invocation
\* node n: its one incoming edge is the Unary edge from n.
WiredTo(c, h, n) ==
    /\ Cardinality(InEdges(c, h)) = 1
    /\ \A k \in InEdges(c, h) : c.edges[k].from = n /\ c.edges[k].role = EdgeInfo("Unary")

\* C10 (amended): after every builder call in either scheme every FHE input
\* node, every PrivateInput, PublicInput and ConstantInput node, every literal
\* node and every constant node has in-degree exactly 0; a HiddenInput node
\* has in-degree at most 1, and one that invoke_gadget created has in-degree
\* exactly 1, the Unary edge from the InvokeGadget node of its invocation.
C10_LeafInDegree ==
    /\ InDegreeZero(ctx, FheLeafKinds)
    /\ InDegreeZero(zkp_ctx, ZkpLeafKinds)
    /\ \A i \in NodeIds(zkp_ctx) :
          zkp_ctx.nodes[i + 1].kind = "HiddenInput" =>
             /\ Cardinality(InEdges(zkp_ctx, i)) <= 1
             /\ \A k \in InEdges(zkp_ctx, i) :
                   /\ zkp_ctx.edges[k].role = EdgeInfo("Unary")
                   /\ zkp_ctx.nodes[zkp_ctx.edges[k].from + 1].kind = "InvokeGadget"
    /\ \A f \in Range(gadget_stack) :
          \A h \in Range(f.hidden_inputs) : WiredTo(zkp_ctx, h, f.node)
    /\ last.op = "invoke_gadget" /\ last.gen.called =>
          \A h \in Range(last.gen.hidden_inputs) :
             \E n \in NodeIds(zkp_ctx) :
                /\ zkp_ctx.nodes[n + 1] = ZkpOperation_InvokeGadget(last.gadget)
                /\ WiredTo(zkp_ctx, h, n)

\* One Context holds a hidden input made by add_hidden_input alone, with no
\* incoming edge, and the hidden inputs of an invocation that has returned.
C10_Witness ==
    /\ last.op = "invoke_gadget"
    /\ last.gen.called
    /\ last.gen.hidden_inputs # <<>>
    /\ \E i \in NodeIds(zkp_ctx) :
          /\ zkp_ctx.nodes[i + 1].kind = "HiddenInput"
          /\ InEdges(zkp_ctx, i) = {}

\* Every id of g is an id of h and names the same operation tag there.
TagsKept(g, h) ==
    \A i \in NodeIds(g) : i \in NodeIds(h) /\ h.nodes[i + 1] = g.nodes[i + 1]

\* The call has created a node of g.  When it returns, its result is the one
\* id of that node, which no earlier node of g had; when it panics in
\* add_edge it hands out no id.
ReturnsFreshId(g, h) ==
    node_count(h) > node_count(g) =>
       /\ node_count(h) = node_count(g) + 1
       /\ IF panicked'
          THEN last'.ret = <<>>
          ELSE /\ Len(last'.ret) = 1
               /\ last'.ret[1] \notin NodeIds(g)
               /\ last'.ret[1] \in NodeIds(h)

\* C11: within one Context every builder call that creates a node returns an
\* id that no previously created node has, and the operation tag stored under
\* an id never changes afterwards.
C11_NodeIdsUniqueAndStable ==
    [][/\ TagsKept(ctx, ctx')
       /\ TagsKept(zkp_ctx, zkp_ctx')
       /\ ReturnsFreshId(ctx, ctx')
       /\ ~EntersGenCircuit => ReturnsFreshId(zkp_ctx, zkp_ctx')]_vars

C11_Witness ==
    /\ node_count(zkp_ctx) = 2
    /\ last.op = "add_constraint"
    /\ last.ret = <<1>>
    /\ zkp_ctx.nodes[1].kind = "Constant"

\* Every binary node of g has its Left and its Right edge, every unary node
\* its Unary edge.
FullyWired(g) ==
    \A i \in NodeIds(g) :
       /\ g.nodes[i + 1].kind \in FheBinaryKinds =>
             RolesInto(g, i, "Left") # {} /\ RolesInto(g, i, "Right") # {}
       /\ g.nodes[i + 1].kind \in FheUnaryKinds => RolesInto(g, i, "Unary") # {}

\* C12: a builder call for a non-leaf operation inserts its node and all of
\* its operand edges together: after a call has returned or has failed (an
\* operand id that is not a node of this graph, say) no non-leaf node lacks
\* any of its prescribed operand edges.
C12_NodeAndEdgesTogether == FullyWired(ctx)

SlotName == [CURRENT_CTX |-> "with_ctx", CURRENT_ZKP_CTX |-> "with_zkp_ctx"]

\* This step is thread t calling with_ctx (s = CURRENT_CTX) or with_zkp_ctx.
WithCalled(t, s) == thread'[t] # thread[t] /\ thread'[t].last.op = SlotName[s]

\* This step is thread t calling invoke_gadget.
InvokeGadgetCalled(t) ==
    /\ thread'[t] # thread[t]
    /\ thread'[t].last.op = "invoke_gadget"
    /\ thread'[t].last.outcome # "ok"

\* The closures of thread t that hold the reference of slot s.
ClosureFrames(t, s) ==
    {i \in 1..Len(thread[t].frames) :
        thread[t].frames[i].kind = "closure" /\ thread[t].frames[i].slot = s}

\* The call did not run its closure: the thread unwound and no Context changed.
FailedFatally(t, outcomes) ==
    /\ thread'[t].last.outcome \in outcomes
    /\ thread'[t].frames = <<>>
    /\ thread[t].building = "None" => ~thread'[t].alive
    /\ heap' = heap

\* C13: with_ctx or with_zkp_ctx called on a thread whose slot is empty fails
\* fatally, and the closure is never run.
C13_EmptySlotPanics ==
    [][\A t \in Threads, s \in Slots :
          (WithCalled(t, s) /\ tls[t][s].value = None) =>
             /\ FailedFatally(t, {"outside of a context"})
             /\ ClosureFrames(t, s)' = {}
             /\ ~tls'[t][s].borrowed]_vars

C13_Witness ==
    /\ thread["A"].last = ThreadCall("with_zkp_ctx", "outside of a context", -1)
    /\ ~thread["A"].alive
    /\ thread["B"].building = "CURRENT_ZKP_CTX"
    /\ tls["B"].CURRENT_ZKP_CTX.value # None
    /\ thread["B"].frames # <<>>

\* Each slot's reference is held by at most one running closure, and the
\* RefCell is borrowed exactly while one holds it.
ExclusiveAccess ==
    \A t \in Threads, s \in Slots :
       /\ Cardinality(ClosureFrames(t, s)) <= 1
       /\ tls[t][s].borrowed <=> ClosureFrames(t, s) # {}

\* C14: access to the active context is exclusive and non-reentrant: calling
\* with_zkp_ctx or invoke_gadget from inside a with_zkp_ctx callback on the
\* same thread, and with_ctx from inside a with_ctx callback, fails fatally,
\* and the inner closure never gets a second reference to the context.
C14_NonReentrant ==
    [][/\ \A t \in Threads, s \in Slots :
             (WithCalled(t, s) /\ ClosureFrames(t, s) # {}) =>
                FailedFatally(t, {"BorrowMutError"})
       /\ \A t \in Threads :
             (InvokeGadgetCalled(t) /\ ClosureFrames(t, "CURRENT_ZKP_CTX") # {}) =>
                FailedFatally(t, {"BorrowMutError", "gadget input mismatch"})
       /\ ExclusiveAccess']_vars

C14_Witness ==
    /\ thread["A"].last = ThreadCall("with_ctx", "BorrowMutError", -1)
    /\ thread["B"].last = ThreadCall("invoke_gadget", "BorrowMutError", -1)
    /\ node_count(heap.CURRENT_CTX[1]) > 0

\* The slot of a thread is set exactly while that thread's construction for
\* that slot is under way, and then to the Context of that construction.
SlotScoped ==
    \A t \in Threads, s \in Slots :
       /\ tls[t][s].value # None <=> thread[t].building = s
       /\ tls[t][s].value \in {None} \cup 1..Len(heap[s])
       /\ \A i \in 1..Len(thread[t].frames) : thread[t].building # "None"

\* C15: the active-context slot is set when a top-level construction begins
\* and is empty again after it ends on every exit path, a failed construction
\* included; a builder call made after a construction has ended and before the
\* next one starts never observes the earlier Context.
C15_SlotScopedToConstruction ==
    [][/\ SlotScoped'
       /\ \A t \in Threads, s \in Slots :
             (WithCalled(t, s) /\ thread[t].building = "None") =>
                FailedFatally(t, {"outside of a context"})
       /\ \A t \in Threads :
             (InvokeGadgetCalled(t) /\ thread[t].building = "None") =>
                FailedFatally(t, {"outside of a context", "gadget input mismatch"})]_vars

C15_Witness ==
    /\ thread["B"].last = NoThreadCall
    /\ thread["A"].last = ThreadCall("with_ctx", "outside of a context", -1)
    /\ Len(heap.CURRENT_CTX) = 1
    /\ Len(heap.CURRENT_ZKP_CTX) = 1
    /\ node_count(heap.CURRENT_CTX[1]) > 0

\* The Contexts thread t's slots refer to.
OwnContexts(t) == {<<s, tls[t][s].value>> : s \in {x \in Slots : tls[t][x].value # None}}

\* C16: two constructions on different threads each see only their own slot:
\* under any interleaving a builder call on one thread never adds a node or an
\* edge to, or reads, the Context installed on another thread.
C16_ThreadsIsolated ==
    [][/\ \A t \in Threads :
             thread'[t] = thread[t] =>
                /\ tls'[t] = tls[t]
                /\ \A o \in OwnContexts(t) : heap'[o[1]][o[2]] = heap[o[1]][o[2]]
       /\ \A t \in Threads, u \in Threads : t # u => OwnContexts(t) \cap OwnContexts(u) = {}
       /\ \A t \in Threads : \A i \in 1..Len(thread[t].frames) :
             <<thread[t].frames[i].slot, thread[t].frames[i].ctx>> \in OwnContexts(t)
       /\ \A t \in Threads :
             (thread'[t] # thread[t] /\ thread'[t].last.ret # -1
                /\ thread'[t].last.op # "begin_construction") =>
                   \E o \in OwnContexts(t) :
                      thread'[t].last.ret = node_count(heap[o[1]][o[2]])]_vars

C16_Witness ==
    /\ thread["A"].building = "CURRENT_ZKP_CTX"
    /\ thread["B"].building = "CURRENT_ZKP_CTX"
    /\ thread["A"].last.op = "add_public_input"
    /\ thread["B"].last.op = "add_private_input"
    /\ heap.CURRENT_ZKP_CTX[1] # heap.CURRENT_ZKP_CTX[2]

\* The number of input nodes inserted before node i.
InputRank(g, i) ==
    Cardinality({j \in NodeIds(g) : j < i /\ g.nodes[j + 1].kind \in FheInputKinds})

\* C17: for every FHE Context reachable by builder calls, lowering maps each
\* input node to InputCiphertext(k) / InputPlaintext(k) with k the 0-based
\* rank of the node among all input nodes in insertion order, however many
\* non-input nodes were inserted before it.
C17_InputPositionIsRank ==
    \A i \in NodeIds(ctx) :
       ctx.nodes[i + 1].kind \in FheInputKinds =>
          LET low == fhe_program_graph(ctx).nodes[i + 1].operation
          IN /\ low.op = ctx.nodes[i + 1].kind
             /\ low.index = InputRank(ctx, i)

\* low has the nodes 0..N-1 of src and, edge by edge, an edge between the
\* same two nodes.
SameTopology(src, low) ==
    /\ Len(low.nodes) = Len(src.nodes)
    /\ Len(low.edges) = Len(src.edges)
    /\ DOMAIN low.nodes = 1..Len(src.nodes)
    /\ \A k \in 1..Len(src.edges) :
          /\ low.edges[k].from = src.edges[k].from
          /\ low.edges[k].to = src.edges[k].to
          /\ \A j \in 1..Len(src.edges) :
                low.edges[k].role = low.edges[j].role <=> src.edges[k].role = src.edges[j].role

\* C18: for both schemes the lowered graph has exactly as many nodes and
\* edges as the frontend graph, its node ids are 0..N-1 without gaps, and node
\* i maps to node i isomorphically: an edge u->v with role r is in the source
\* iff the corresponding lowered edge is between the images of u and v.
C18_LoweringIsomorphic ==
    /\ \A i \in 1..Len(heap.CURRENT_CTX) :
          \A r \in {FrontendCompilation_compile(heap.CURRENT_CTX[i])} :
             r.outcome = "ok" => SameTopology(heap.CURRENT_CTX[i], r.graph)
    /\ \A i \in 1..Len(heap.CURRENT_ZKP_CTX) :
          \A low \in {compile(heap.CURRENT_ZKP_CTX[i])} :
             SameTopology(heap.CURRENT_ZKP_CTX[i], low)

C18_Witness ==
    /\ Len(heap.CURRENT_CTX) = 1
    /\ node_count(heap.CURRENT_CTX[1]) = 3
    /\ \E k \in 1..Len(heap.CURRENT_CTX[1].edges), j \in 1..Len(heap.CURRENT_CTX[1].edges) :
          /\ heap.CURRENT_CTX[1].edges[k] = [from |-> 0, to |-> 2, role |-> "Right"]
          /\ heap.CURRENT_CTX[1].edges[j] = [from |-> 1, to |-> 2, role |-> "Left"]

FheRoleImage == [Left |-> "LeftOperand", Right |-> "RightOperand", Unary |-> "UnaryOperand"]

\* C20: the lowering tag mapping is total and one-to-one: every frontend
\* operation kind maps to exactly one backend kind and no two frontend kinds
\* map to the same one, payloads are carried over, and each edge role maps to
\* its own backend role (Left to LeftOperand, Right to RightOperand, Unary to
\* UnaryOperand; ZKP roles are copied unchanged).
C20_TagMappingOneToOne ==
    /\ \A c \in 1..Len(heap.CURRENT_CTX) :
          \A src \in {heap.CURRENT_CTX[c]} :
          \A low \in {r.graph : r \in {x \in {FrontendCompilation_compile(src)} : x.outcome = "ok"}} :
             /\ \A i \in NodeIds(src), j \in NodeIds(src) :
                   /\ low.nodes[i + 1].operation.op = low.nodes[j + 1].operation.op
                         <=> src.nodes[i + 1].kind = src.nodes[j + 1].kind
                   /\ low.nodes[i + 1].operation.literal = low.nodes[j + 1].operation.literal
                         <=> src.nodes[i + 1].literal = src.nodes[j + 1].literal
             /\ \A i \in NodeIds(src) :
                   src.nodes[i + 1].literal.lit = "U64" =>
                      low.nodes[i + 1].operation.literal.val = src.nodes[i + 1].literal.val
             /\ \A k \in 1..Len(src.edges) :
                   low.edges[k].role = FheRoleImage[src.edges[k].role]
    /\ \A c \in 1..Len(heap.CURRENT_ZKP_CTX) :
          \A src \in {heap.CURRENT_ZKP_CTX[c]} :
          \A low \in {compile(src)} :
             /\ \A i \in NodeIds(src), j \in NodeIds(src) :
                   low.nodes[i + 1].operation.jit = low.nodes[j + 1].operation.jit
                      <=> src.nodes[i + 1].kind = src.nodes[j + 1].kind
             /\ \A i \in NodeIds(src) :
                   /\ low.nodes[i + 1].operation.arg = src.nodes[i + 1].arg
                   /\ low.nodes[i + 1].operation.gadget = src.nodes[i + 1].gadget
             /\ \A k \in 1..Len(src.edges) : low.edges[k].role = src.edges[k].role

C20_Witness ==
    /\ Len(heap.CURRENT_CTX) = 1
    /\ \E i \in NodeIds(heap.CURRENT_CTX[1]) :
          heap.CURRENT_CTX[1].nodes[i + 1].kind = "RotateLeft"
    /\ \E i \in NodeIds(heap.CURRENT_CTX[1]) :
          heap.CURRENT_CTX[1].nodes[i + 1].kind = "RotateRight"
    /\ \E i \in NodeIds(heap.CURRENT_CTX[1]) :
          heap.CURRENT_CTX[1].nodes[i + 1].literal.lit = "Plaintext"

\* Two lowered graphs are identical: the same operation at every node index
\* and the same edges over those indices.
IdenticalGraphs(a, b) ==
    /\ a.nodes = b.nodes
    /\ {a.edges[k] : k \in 1..Len(a.edges)} = {b.edges[k] : k \in 1..Len(b.edges)}

\* C19: two Contexts whose graphs are structurally equal lower to identical
\* compiled graphs, whatever the order in which their nodes were inserted.
C19_EqualProgramsLowerIdentically ==
    /\ \A i \in 1..Len(heap.CURRENT_CTX), j \in 1..Len(heap.CURRENT_CTX) :
          /\ is_isomorphic_matching(heap.CURRENT_CTX[i], heap.CURRENT_CTX[j])
          /\ FrontendCompilation_compile(heap.CURRENT_CTX[i]).outcome = "ok"
          => IdenticalGraphs(FrontendCompilation_compile(heap.CURRENT_CTX[i]).graph,
                             FrontendCompilation_compile(heap.CURRENT_CTX[j]).graph)
    /\ \A i \in 1..Len(heap.CURRENT_ZKP_CTX), j \in 1..Len(heap.CURRENT_ZKP_CTX) :
          is_isomorphic_matching(heap.CURRENT_ZKP_CTX[i], heap.CURRENT_ZKP_CTX[j]) =>
             IdenticalGraphs(compile(heap.CURRENT_ZKP_CTX[i]), compile(heap.CURRENT_ZKP_CTX[j]))

\* The operation tags of g and of h, each as often in the one as in the other.
SameTags(g, h) ==
    \A t \in {g.nodes[i + 1] : i \in NodeIds(g)} \cup {h.nodes[i + 1] : i \in NodeIds(h)} :
       Cardinality({i \in NodeIds(g) : g.nodes[i + 1] = t})
          = Cardinality({i \in NodeIds(h) : h.nodes[i + 1] = t})

\* An edge as wiring: the tag it leaves, its operand role, the tag it enters.
Wire(g, k) ==
    <<g.nodes[g.edges[k].from + 1], EdgeWeight(g.edges[k]), g.nodes[g.edges[k].to + 1]>>

SameWiring(g, h) ==
    \A w \in {Wire(g, k) : k \in 1..Len(g.edges)} \cup {Wire(h, k) : k \in 1..Len(h.edges)} :
       Cardinality({k \in 1..Len(g.edges) : Wire(g, k) = w})
          = Cardinality({k \in 1..Len(h.edges) : Wire(h, k) = w})

\* h holds the operations of g wired with the same operand roles, under
\* another numbering of the nodes.
Renumbered(g, h) ==
    /\ node_count(g) = node_count(h)
    /\ edge_count(g) = edge_count(h)
    /\ \E p \in Relabelings(g) :
          /\ \A i \in NodeIds(g) : h.nodes[p[i] + 1] = g.nodes[i + 1]
          /\ {h.edges[k] : k \in 1..Len(h.edges)}
                = {[from |-> p[g.edges[k].from], to |-> p[g.edges[k].to],
                    role |-> g.edges[k].role] : k \in 1..Len(g.edges)}

\* C24: structural equality of two FHE compilations is reflexive and
\* symmetric, holds for the same operations wired with the same operand roles
\* whatever the node numbering, and fails when an operation tag or the role on
\* an edge differs.
C24_StructuralEquality ==
    \A i \in 1..Len(heap.CURRENT_CTX), j \in 1..Len(heap.CURRENT_CTX) :
       \A a \in {heap.CURRENT_CTX[i]}, b \in {heap.CURRENT_CTX[j]} :
          \A eq \in {is_isomorphic_matching(a, b)} :
             /\ i = j => eq
             /\ i < j => (eq <=> is_isomorphic_matching(b, a))
             /\ Renumbered(a, b) => eq
             /\ ~SameTags(a, b) \/ ~SameWiring(a, b) => ~eq

\* Two Contexts hold an input and a literal inserted in opposite orders and
\* subtract the literal from the input: they compare equal.
C24_Witness ==
    /\ Len(heap.CURRENT_CTX) = 2
    /\ heap.CURRENT_CTX[1].nodes
          = <<Operation("InputCiphertext"), Operation_Literal(Literal_U64(0)), Operation("Sub")>>
    /\ heap.CURRENT_CTX[2].nodes
          = <<Operation_Literal(Literal_U64(0)), Operation("InputCiphertext"), Operation("Sub")>>
    /\ heap.CURRENT_CTX[1] # heap.CURRENT_CTX[2]
    /\ is_isomorphic_matching(heap.CURRENT_CTX[1], heap.CURRENT_CTX[2])

\* Two Contexts hold the same operations and differ only in the operand roles
\* of the subtraction: they compare unequal.
C24_WitnessRoles ==
    /\ Len(heap.CURRENT_CTX) = 2
    /\ heap.CURRENT_CTX[1].nodes = heap.CURRENT_CTX[2].nodes
    /\ SameTags(heap.CURRENT_CTX[1], heap.CURRENT_CTX[2])
    /\ ~SameWiring(heap.CURRENT_CTX[1], heap.CURRENT_CTX[2])
    /\ ~is_isomorphic_matching(heap.CURRENT_CTX[1], heap.CURRENT_CTX[2])

\* The Context holds a plaintext literal node.
HasPlaintextLiteral(g) ==
    \E i \in NodeIds(g) : g.nodes[i + 1].kind = "Literal" /\ g.nodes[i + 1].literal.lit = "Plaintext"

\* The call inserted or found the plaintext literal p and returned its id.
InsertedPlaintext(r, p) ==
    /\ r.id \in NodeIds(r.g)
    /\ r.g.nodes[r.id + 1] = Operation_Literal(Literal_Plaintext(p))

\* C21: inserting a plaintext literal, through add_plaintext_literal or
\* through add_literal, succeeds whether or not the value can be serialized;
\* no failure exists before the lowering pass has run, and a lowering fails
\* only on a graph that holds a plaintext literal.
C21_SerializationDeferredToLowering ==
    /\ \A i \in 1..Len(heap.CURRENT_CTX), p \in PlaintextValues :
          /\ InsertedPlaintext(add_plaintext_literal_op(heap.CURRENT_CTX[i], p), p)
          /\ InsertedPlaintext(add_literal_op(heap.CURRENT_CTX[i], Literal_Plaintext(p)), p)
    /\ compiled.calls = 0 => compiled.outcome = "none"
    /\ compiled.outcome = "panic" =>
          /\ compiled.calls > 0
          /\ compiled.slot = "CURRENT_CTX"
          /\ HasPlaintextLiteral(heap.CURRENT_CTX[compiled.index])

C21_Witness ==
    /\ compiled.outcome = "panic"
    /\ compiled.message = "Failed to serialize plaintext.: SerializeError"
    /\ \E i \in NodeIds(heap.CURRENT_CTX[compiled.index]) :
          heap.CURRENT_CTX[compiled.index].nodes[i + 1].literal = Literal_Plaintext(Unserializable)

\* C22: a plaintext literal that fails to serialize does not crash the
\* lowering pass: the pass ends by returning a compilation error, never by a
\* panic.
C22_LoweringFailureIsRecoverable == compiled.outcome # "panic"

ZkpInputKinds == {"PublicInput", "PrivateInput", "ConstantInput"}

\* The counter of ZkpData that numbers the inputs of a kind.
NextInput(c, kind) ==
    CASE kind = "PublicInput" -> c.data.next_public_input
      [] kind = "PrivateInput" -> c.data.next_private_input
      [] kind = "ConstantInput" -> c.data.next_constant_input

\* The builder that adds an input of a kind.
AddInputCall ==
    [PublicInput |-> "add_public_input", PrivateInput |-> "add_private_input",
     ConstantInput |-> "add_constant_input"]

NodesOfKind(c, kind) == {i \in NodeIds(c) : c.nodes[i + 1].kind = kind}

\* C23: each of the three input counters counts the inputs of its kind from
\* 0: a step raises it by exactly 1 if it is the add_*_input call of that kind
\* and leaves it unchanged otherwise, so the k-th input of a kind carries slot
\* k and no two inputs of one kind share a slot.
C23_InputCounters ==
    [][\A kind \in ZkpInputKinds :
          /\ NextInput(zkp_ctx', kind) = NextInput(zkp_ctx, kind) +
                (IF last' # last /\ last'.op = AddInputCall[kind] THEN 1 ELSE 0)
          /\ NextInput(zkp_ctx', kind) = Cardinality(NodesOfKind(zkp_ctx', kind))
          /\ \A i \in NodesOfKind(zkp_ctx', kind) :
                zkp_ctx'.nodes[i + 1].arg =
                   Cardinality({j \in NodesOfKind(zkp_ctx', kind) : j < i})]_vars

C23_Witness ==
    /\ zkp_ctx.data = [next_public_input |-> 0, next_private_input |-> 2,
                       next_constant_input |-> 0]
    /\ zkp_ctx.nodes = <<ZkpOperation("PrivateInput", 0), ZkpOperation("PrivateInput", 1)>>

\* A binary builder was called with one node as both operands.
SameOperandCall ==
    /\ last' # last
    /\ last'.op \in DOMAIN FheBinaryBuilders
    /\ last'.args[1] = last'.args[2]
    /\ last'.args[1] \in NodeIds(ctx)

\* C25: a binary builder called with the same node as left and right operand
\* adds a single node and two edges into it, one Left and one Right, both
\* from that operand: the parallel edges are both kept.
C25_SameNodeBothOperands ==
    [][SameOperandCall =>
          LET id == last'.ret[1]
              l == last'.args[1]
          IN /\ node_count(ctx') = node_count(ctx) + 1
             /\ edge_count(ctx') = edge_count(ctx) + 2
             /\ id = node_count(ctx)
             /\ Cardinality(InEdges(ctx', id)) = 2
             /\ {ctx'.edges[k] : k \in InEdges(ctx', id)} =
                   {[from |-> l, to |-> id, role |-> "Left"],
                    [from |-> l, to |-> id, role |-> "Right"]}]_vars

C25_Witness ==
    /\ last.op = "add_multiplication"
    /\ last.args = <<0, 0>>
    /\ literal_ids[Literal_U64(1)] = 0
    /\ ctx.nodes = <<Operation_Literal(Literal_U64(1)), Operation("Multiply")>>
    /\ Len(ctx.edges) = 2

\* Every edge of g runs from a node to a node inserted after it.
EdgesRunForward(g) == \A k \in 1..Len(g.edges) : g.edges[k].from < g.edges[k].to

\* C30: after any sequence of builder calls the graph is acyclic: every edge
\* goes from a smaller node id to a larger one, so there is no self-loop and
\* no cycle.
C30_Acyclic == EdgesRunForward(ctx)

\* get_fhe_program_node was called.
GetNodeCalled == last' # last /\ last'.op = "get_fhe_program_node"

\* C27: the cache holds one entry per id sequence.  The first call for ids
\* inserts a node of the requested type T and returns it; a later call with
\* the same ids and T returns the cached node and adds nothing; a later call
\* with the same ids and another T panics and leaves the cache as it was.
C27_NodeCache ==
    [][GetNodeCalled =>
          LET ids == last'.args
              T == last'.type
          IN IF ids \notin DOMAIN fhe_program_nodes
             THEN /\ ~panicked'
                  /\ DOMAIN fhe_program_nodes' = DOMAIN fhe_program_nodes \cup {ids}
                  /\ \A k \in DOMAIN fhe_program_nodes :
                        fhe_program_nodes'[k] = fhe_program_nodes[k]
                  /\ fhe_program_nodes'[ids].type = T
                  /\ last'.ret = <<fhe_program_nodes'[ids]>>
             ELSE IF fhe_program_nodes[ids].type = T
             THEN /\ ~panicked'
                  /\ fhe_program_nodes' = fhe_program_nodes
                  /\ last'.ret = <<fhe_program_nodes[ids]>>
             ELSE /\ panicked'
                  /\ fhe_program_nodes' = fhe_program_nodes]_vars

C27_Witness ==
    /\ panicked
    /\ last.op = "get_fhe_program_node"
    /\ last.args = <<0, 1>>
    /\ last.type = "Cipher<Rational>"
    /\ DOMAIN fhe_program_nodes = {<<0, 1>>, <<2>>}
    /\ fhe_program_nodes[<<0, 1>>].type = "Cipher<Signed>"

\* C28: equality of ZKP operations other than gadget invocations is keyed
\* on the fields hashing is keyed on: op == op for every op, two operations
\* are equal exactly when they are the same variant with the same payload,
\* and equal operations hash equally.
C28_OperationEqConsistentWithHash ==
    (/\ last.op = "eq"
     /\ last.args[1].kind # "InvokeGadget"
     /\ last.args[2].kind # "InvokeGadget") =>
       /\ last.ret[1] <=> (/\ last.args[1].kind = last.args[2].kind
                           /\ last.args[1].arg = last.args[2].arg)
       /\ last.ret[1] => last.ret[2] = last.ret[3]

\* C29: two InvokeGadget operations are equal, and hash equally, exactly when
\* their gadgets have the same runtime type, whether or not they are the
\* same instance.
C29_GadgetEqByRuntimeType ==
    (/\ last.op = "eq"
     /\ last.args[1].kind = "InvokeGadget"
     /\ last.args[2].kind = "InvokeGadget") =>
       /\ last.ret[1] <=> last.args[1].gadget = last.args[2].gadget
       /\ last.ret[2] = last.ret[3] <=> last.args[1].gadget = last.args[2].gadget

\* C34: in a ZKP context the role of every edge agrees with the
\* classification of the operation it enters: Left and Right enter an
\* is_binary node, Unary an is_unary node, Ordered an is_ordered node and
\* Unordered an is_unordered node.
C34_EdgeRoleMatchesClassification ==
    \A k \in 1..Len(zkp_ctx.edges) :
       LET role == zkp_ctx.edges[k].role.role
           op == zkp_ctx.nodes[zkp_ctx.edges[k].to + 1]
       IN /\ role \in {"Left", "Right"} => is_binary(op)
          /\ role = "Unary" => is_unary(op)
          /\ role = "Ordered" => is_ordered(op)
          /\ role = "Unordered" => is_unordered(op)

\* The hidden inputs attached to the invocation node n: the HiddenInput nodes
\* at the end of a Unary edge that leaves n.
HiddenInputsOf(c, n) ==
    {c.edges[k].to : k \in {e \in OutEdges(c, n) :
                              /\ c.edges[e].role.role = "Unary"
                              /\ c.nodes[c.edges[e].to + 1].kind = "HiddenInput"}}

\* The ids in hs are hidden inputs tagged 0, 1, ... in the order of hs, which
\* is the order of their creation.
NumberedFromZero(c, hs) ==
    /\ \A j \in 1..Len(hs) : c.nodes[hs[j] + 1] = ZkpOperation("HiddenInput", j - 1)
    /\ \A j \in 1..(Len(hs) - 1) : hs[j] < hs[j + 1]

\* C32: the hidden inputs of one gadget invocation are tagged HiddenInput(0),
\* ..., HiddenInput(h-1) in creation order and reach gen_circuit in that
\* order; the numbering restarts at 0 for every invocation, so a slot value is
\* unique among the hidden inputs attached to one invocation node.
C32_HiddenInputSlots ==
    /\ \A f \in Range(gadget_stack) :
          /\ Len(f.hidden_inputs) = hidden_input_count(f.gadget)
          /\ NumberedFromZero(zkp_ctx, f.hidden_inputs)
          /\ Range(f.hidden_inputs) = HiddenInputsOf(zkp_ctx, f.node)
    /\ last.op = "invoke_gadget" /\ last.gen.called =>
          /\ Len(last.gen.hidden_inputs) = hidden_input_count(last.gadget)
          /\ NumberedFromZero(zkp_ctx, last.gen.hidden_inputs)
    /\ \A n \in NodeIds(zkp_ctx) :
          zkp_ctx.nodes[n + 1].kind = "InvokeGadget" =>
             LET hs == HiddenInputsOf(zkp_ctx, n)
             IN /\ \A a \in hs, b \in hs :
                      zkp_ctx.nodes[a + 1].arg = zkp_ctx.nodes[b + 1].arg => a = b
                /\ \A a \in hs, b \in hs :
                      a < b => zkp_ctx.nodes[a + 1].arg < zkp_ctx.nodes[b + 1].arg

\* A gadget with two hidden inputs was invoked from inside the gen_circuit of
\* another invocation and has returned: the Context holds two hidden inputs
\* with slot 0, one per invocation.
C32_Witness ==
    /\ last.op = "invoke_gadget"
    /\ last.gen.called
    /\ last.gadget = "GB"
    /\ Len(last.gen.hidden_inputs) = 2
    /\ Len(gadget_stack) = 1
    /\ Cardinality({i \in NodeIds(zkp_ctx) :
                       zkp_ctx.nodes[i + 1] = ZkpOperation("HiddenInput", 0)}) = 2

\* h is g with nodes and edges added behind the ones g has: no node is
\* removed or retagged, no edge removed or given other ends or another role.
Grown(g, h) ==
    /\ node_count(g) <= node_count(h)
    /\ edge_count(g) <= edge_count(h)
    /\ \A i \in NodeIds(g) : i \in NodeIds(h) /\ h.nodes[i + 1] = g.nodes[i + 1]
    /\ \A k \in 1..Len(g.edges) : h.edges[k] = g.edges[k]

\* The ids the step handed out are the next ones in insertion order: the N-th
\* node inserted has id N-1.
NextIdsReturned(g, h) ==
    node_count(h) > node_count(g) =>
       IF EntersGenCircuit
       THEN /\ Top(gadget_stack').node = node_count(g)
            /\ \A j \in 1..Len(Top(gadget_stack').hidden_inputs) :
                  Top(gadget_stack').hidden_inputs[j] = node_count(g) + j
            /\ node_count(h) = node_count(g) + 1 + Len(Top(gadget_stack').hidden_inputs)
       ELSE /\ last'.ret = IF panicked' THEN <<>> ELSE <<node_count(g)>>
            /\ node_count(h) = node_count(g) + 1

\* C33: the frontend graph only grows: no builder removes or retags a node or
\* removes or re-roles an edge, node and edge counts never decrease, every id
\* handed out stays valid, and after N insertions the node ids are 0..N-1 in
\* insertion order.
C33_GraphOnlyGrows ==
    [][/\ Grown(ctx, ctx')
       /\ Grown(zkp_ctx, zkp_ctx')
       /\ ~EntersGenCircuit => NextIdsReturned(ctx, ctx')
       /\ NextIdsReturned(zkp_ctx, zkp_ctx')]_vars

\* Inside the gen_circuit of a gadget with two hidden inputs a negation of a
\* hidden input was added behind the three nodes and two edges of the wiring.
C33_Witness ==
    /\ last.op = "add_negate"
    /\ last.ret = <<3>>
    /\ node_count(zkp_ctx) = 4
    /\ edge_count(zkp_ctx) = 3
    /\ zkp_ctx.nodes[1].kind = "InvokeGadget"

\* Thread t is inside gen_circuit itself, not inside a closure it started.
InGenCircuit(t) ==
    /\ Running(t)
    /\ thread[t].frames # <<>>
    /\ ThreadTop(t).kind = "gen_circuit"

\* This step is thread t calling a builder from a with_zkp_ctx closure.
ZkpBuilderCalled(t) ==
    /\ thread'[t] # thread[t]
    /\ thread'[t].last.op \in {"add_public_input", "add_private_input"}

\* C31: invoke_gadget calls gen_circuit only after all of the wiring is done
\* and after with_zkp_ctx has given up its exclusive access to the active
\* context; so with_zkp_ctx and invoke_gadget called from inside gen_circuit
\* succeed and work on the same Context, which already holds the invocation
\* node and the hidden inputs of the outer invocation.
C31_GenCircuitAfterWiring ==
    [][\A t \in Threads :
          /\ (InvokeGadgetCalled(t) /\ thread'[t].last.outcome = "gen_circuit") =>
                LET f == thread'[t].frames[Len(thread'[t].frames)]
                    c == heap.CURRENT_ZKP_CTX[f.ctx]
                    d == heap'.CURRENT_ZKP_CTX[f.ctx]
                    g == d.nodes[node_count(c) + 1]
                IN /\ f.kind = "gen_circuit"
                   /\ ~tls'[t].CURRENT_ZKP_CTX.borrowed
                   /\ tls'[t].CURRENT_ZKP_CTX.value = f.ctx
                   /\ g.kind = "InvokeGadget"
                   /\ node_count(d) = node_count(c) + 1 + hidden_input_count(g.gadget)
                   /\ \A j \in 1..hidden_input_count(g.gadget) :
                         d.nodes[node_count(c) + 1 + j] = ZkpOperation("HiddenInput", j - 1)
                   /\ edge_count(d) = edge_count(c) + hidden_input_count(g.gadget)
                                                    + gadget_input_count(g.gadget)
                   /\ \A i \in NodeIds(c) : d.nodes[i + 1] = c.nodes[i + 1]
          /\ InGenCircuit(t) =>
                /\ WithCalled(t, "CURRENT_ZKP_CTX") =>
                      /\ thread'[t].last.outcome = "ok"
                      /\ thread'[t].frames =
                            Append(thread[t].frames,
                                   Frame("closure", "CURRENT_ZKP_CTX", ThreadTop(t).ctx))
                /\ InvokeGadgetCalled(t) =>
                      \/ thread'[t].last.outcome = "gadget input mismatch"
                      \/ /\ thread'[t].last.outcome = "gen_circuit"
                         /\ thread'[t].frames =
                               Append(thread[t].frames,
                                      Frame("gen_circuit", "CURRENT_ZKP_CTX", ThreadTop(t).ctx))
          /\ ZkpBuilderCalled(t) =>
                /\ thread'[t].last.outcome = "ok"
                /\ \A i \in 1..Len(thread[t].frames) :
                      thread[t].frames[i].ctx = tls[t].CURRENT_ZKP_CTX.value
                /\ \A i \in 1..Len(heap.CURRENT_ZKP_CTX) :
                      i # ThreadTop(t).ctx => heap'.CURRENT_ZKP_CTX[i] = heap.CURRENT_ZKP_CTX[i]
                /\ \A i \in NodeIds(heap.CURRENT_ZKP_CTX[ThreadTop(t).ctx]) :
                      heap'.CURRENT_ZKP_CTX[ThreadTop(t).ctx].nodes[i + 1]
                         = heap.CURRENT_ZKP_CTX[ThreadTop(t).ctx].nodes[i + 1]]_vars

\* gen_circuit of a gadget with two hidden inputs has invoked a second gadget
\* on one of them and is now inside the gen_circuit of that one.
C31_Witness ==
    /\ Len(thread[MainThread].frames) = 2
    /\ thread[MainThread].frames[1].kind = "gen_circuit"
    /\ thread[MainThread].frames[2].kind = "gen_circuit"
    /\ thread[MainThread].last = ThreadCall("invoke_gadget", "gen_circuit", -1)
    /\ heap.CURRENT_ZKP_CTX[1].nodes[1] = ZkpOperation_InvokeGadget("GB")
    /\ heap.CURRENT_ZKP_CTX[1].nodes[4] = ZkpOperation_InvokeGadget("GA")

\* gen_circuit has called with_zkp_ctx and, in its closure, a builder: the
\* input was added behind the invocation node and its hidden inputs.
C31_WitnessBuilder ==
    /\ Len(thread[MainThread].frames) = 2
    /\ thread[MainThread].frames[1].kind = "gen_circuit"
    /\ thread[MainThread].frames[2].kind = "closure"
    /\ thread[MainThread].last = ThreadCall("add_private_input", "ok", 3)
    /\ heap.CURRENT_ZKP_CTX[1].nodes[1] = ZkpOperation_InvokeGadget("GB")

====
